---- MODULE Spec2Model ----
(***************************************************************************)
(* A model of src/server.js: the report handler (POST /api/generate-report *)
(* with generateReport, evaluateAllAnswersWithOpenAI and                   *)
(* evaluateAnswerWithOpenAI) and the upload handler                        *)
(* (POST /api/upload-presentation with extractTextFromPdf,                 *)
(* processTextContent, convertPdfToImages and uploadImagesToSupabase).     *)
(* Every await of the code is one step of the model; the provider, the     *)
(* renderer, the storage and the database answer nondeterministically.     *)
(***************************************************************************)
EXTENDS Integers, Sequences, FiniteSets, TLC

(***************************************************************************)
(* Bounds of the model.                                                    *)
(***************************************************************************)
\* longest qaPairs array of a request
MaxPairs == 3
\* longest JSON array in a provider response
MaxArr == 2
\* most page blocks of a document
MaxPages == 2
\* most files the renderer leaves in the scratch directory
MaxImages == 2

(***************************************************************************)
(* Program constants.                                                      *)
(***************************************************************************)
\* retryCount < 2: the retry limit of both evaluation calls
MaxRetries == 2
\* similarity >= 70 counts as passed
PassThreshold == 70
\* extractedText.length > 10: the minimum text length of a slide
MinTextLength == 10
\* the default backoff after a rate-limit error, in ms
DefaultBackoff == 30000
\* the margin added to the provider's retry-after hint, in ms
BackoffMargin == 5000

SeqsUpTo(S, n) == UNION {[1..k -> S] : k \in 0..n}

RECURSIVE SumSeq(_)
SumSeq(s) == IF s = <<>> THEN 0 ELSE Head(s) + SumSeq(Tail(s))

(***************************************************************************)
(* JavaScript values of the "similarity" field.  t is the type: "num" a    *)
(* number n, "str" a string whose characters are d (0..9 a digit, 10 the   *)
(* minus sign, 11 any other character), "undef" a missing field, "nan"     *)
(* the number NaN.                                                         *)
(***************************************************************************)
Num(n) == [t |-> "num", n |-> n, d |-> <<>>]
Str(d) == [t |-> "str", n |-> 0, d |-> d]
Undef == [t |-> "undef", n |-> 0, d |-> <<>>]
NaN == [t |-> "nan", n |-> 0, d |-> <<>>]

RECURSIVE Digits(_)
Digits(n) == IF n < 10 THEN <<n>> ELSE Digits(n \div 10) \o <<n % 10>>

\* String(v) as `+` applies it to a non-string operand
ToStr(v) ==
  CASE v.t = "str" -> v.d
    [] v.t = "num" -> IF v.n < 0 THEN <<10>> \o Digits(-v.n) ELSE Digits(v.n)
    [] v.t = "nan" -> <<11, 11, 11>>
    [] OTHER -> <<11, 11, 11, 11, 11, 11, 11, 11, 11>>

RECURSIVE DigitsValue(_)
DigitsValue(d) ==
  IF d = <<>> THEN 0 ELSE 10 * DigitsValue(SubSeq(d, 1, Len(d) - 1)) + d[Len(d)]

AllDigits(d) == \A k \in 1..Len(d) : d[k] \in 0..9

\* Number(v): the numeric conversion of the relational operators and of `/`
ToNumber(v) ==
  CASE v.t = "num" -> v
    [] v.t = "nan" -> NaN
    [] v.t = "undef" -> NaN
    [] v.t = "str" ->
         IF AllDigits(v.d) THEN Num(DigitsValue(v.d))
         ELSE IF Len(v.d) > 1 /\ v.d[1] = 10 /\ AllDigits(Tail(v.d))
                THEN Num(-DigitsValue(Tail(v.d)))
                ELSE NaN

\* a + b
JsAdd(a, b) ==
  IF a.t = "str" \/ b.t = "str" THEN Str(ToStr(a) \o ToStr(b))
  ELSE IF a.t = "num" /\ b.t = "num" THEN Num(a.n + b.n)
  ELSE NaN

\* !v
Falsy(v) ==
  \/ v.t = "undef"
  \/ v.t = "nan"
  \/ v.t = "num" /\ v.n = 0
  \/ v.t = "str" /\ v.d = <<>>

\* v || 0
OrZero(v) == IF Falsy(v) THEN Num(0) ELSE v

\* s || dflt for a string field, "" standing for a missing or empty field
OrDefault(s, dflt) == IF s = "" THEN dflt ELSE s

\* a >= k for a number k
JsGE(a, k) == LET x == ToNumber(a) IN x.t = "num" /\ x.n >= k

\* Math.round(num / den) for den > 0: halves go up
RoundDiv(num, den) == (2 * num + den) \div (2 * den)

(***************************************************************************)
(* Provider responses.  A result object of the JSON payload carries        *)
(* questionIndex (0: no number there), referenceAnswer and missingPoints   *)
(* ("" when missing) and similarity; isNull marks the JSON value null.     *)
(***************************************************************************)
Obj(qi, ref, sim, mp) ==
  [isNull |-> FALSE, questionIndex |-> qi, referenceAnswer |-> ref,
   similarity |-> sim, missingPoints |-> mp]

\* the object {}
EmptyObj == Obj(0, "", Undef, "")

\* the value null
NullObj == [EmptyObj EXCEPT !.isNull = TRUE]

ProviderObjects ==
  { Obj(1, "refA", Num(85), "mpA"),
    Obj(2, "refB", Num(70), "mpB"),
    Obj(0, "refC", Num(69), "mpC"),
    Obj(3, "refD", Str(<<8, 5>>), ""),
    Obj(0, "refE", Num(150), "mpE"),
    EmptyObj,
    NullObj }

\* the objects a single-pair response is drawn from
SingleObjects == {Obj(0, "refA", Num(85), "mpA"), NullObj}

(***************************************************************************)
(* A response text is a sequence of tokens: "F" the fence ```, "J" the     *)
(* word json, "L" any other word, "W" white space, "P" a well-formed JSON  *)
(* value v: an array (arr) of items, or the single value items[1].         *)
(***************************************************************************)
NoValue == [arr |-> FALSE, items |-> <<>>]
Tok(k) == [k |-> k, v |-> NoValue]
JsonArray(items) == [k |-> "P", v |-> [arr |-> TRUE, items |-> items]]
JsonObject(o) == [k |-> "P", v |-> [arr |-> FALSE, items |-> <<o>>]]

\* the ways a provider wraps its payload
Wrap(style, p) ==
  CASE style = "bare" -> <<p>>
    [] style = "padded" -> <<Tok("W"), p, Tok("W")>>
    [] style = "json" -> <<Tok("F"), Tok("J"), Tok("W"), p, Tok("W"), Tok("F")>>
    [] style = "plain" -> <<Tok("F"), Tok("W"), p, Tok("W"), Tok("F")>>
    [] style = "lang" -> <<Tok("F"), Tok("L"), Tok("W"), p, Tok("W"), Tok("F")>>
    [] style = "prose" -> <<Tok("L"), Tok("W"), p>>

Styles == {"bare", "padded", "json", "plain", "lang", "prose"}

BatchPayloads ==
  {JsonArray(a) : a \in SeqsUpTo(ProviderObjects, MaxArr)}
    \cup {JsonObject(o) : o \in ProviderObjects}

SinglePayloads == {JsonObject(o) : o \in SingleObjects}

\* the empty text, a text that is no JSON, and the wrapped payloads
BatchTexts ==
  {<<>>, <<Tok("L")>>} \cup {Wrap(st, p) : st \in Styles, p \in BatchPayloads}

SingleTexts ==
  {<<>>} \cup {Wrap(st, p) : st \in {"bare", "json"}, p \in SinglePayloads}

\* the provider's retry-after header in seconds, -1 when it is missing
RetryAfterHints == {-1, 1}

Outcome(kind, text, hint) == [kind |-> kind, text |-> text, hint |-> hint]

\* "text": a completion; "rate": an error of status 429; "error": any other
\* failure of the call (another status, no status, a completion with no text)
OutcomesOver(texts) ==
  {Outcome("text", t, -1) : t \in texts}
    \cup {Outcome("rate", <<>>, h) : h \in RetryAfterHints}
    \cup {Outcome("error", <<>>, -1)}

RECURSIVE DropLeadingWs(_)
DropLeadingWs(t) ==
  IF t # <<>> /\ Head(t).k = "W" THEN DropLeadingWs(Tail(t)) ELSE t

RECURSIVE DropTrailingWs(_)
DropTrailingWs(t) ==
  IF t # <<>> /\ t[Len(t)].k = "W"
    THEN DropTrailingWs(SubSeq(t, 1, Len(t) - 1))
    ELSE t

\* String.prototype.trim
Trim(t) == DropTrailingWs(DropLeadingWs(t))

\* text.includes('```json')
IncludesJsonFence(t) ==
  \E p \in 1..(Len(t) - 1) : t[p].k = "F" /\ t[p + 1].k = "J"

\* text.includes('```')
IncludesFence(t) == \E p \in 1..Len(t) : t[p].k = "F"

\* text.replace(/```json\s*/, ''): the first match only
StripJsonFence(t) ==
  IF ~IncludesJsonFence(t) THEN t
  ELSE LET p == CHOOSE q \in 1..(Len(t) - 1) :
                  /\ t[q].k = "F" /\ t[q + 1].k = "J"
                  /\ \A r \in 1..(q - 1) : ~(t[r].k = "F" /\ t[r + 1].k = "J")
       IN SubSeq(t, 1, p - 1) \o DropLeadingWs(SubSeq(t, p + 2, Len(t)))

\* text.replace(/```\s*/, ''): the first match only
StripFence(t) ==
  IF ~IncludesFence(t) THEN t
  ELSE LET p == CHOOSE q \in 1..Len(t) :
                  t[q].k = "F" /\ \A r \in 1..(q - 1) : t[r].k # "F"
       IN SubSeq(t, 1, p - 1) \o DropLeadingWs(SubSeq(t, p + 1, Len(t)))

\* text.replace(/```\s*$/, '')
StripClosingFence(t) ==
  LET u == DropTrailingWs(t)
  IN IF u # <<>> /\ u[Len(u)].k = "F" THEN SubSeq(u, 1, Len(u) - 1) ELSE t

\* CleanResponse that knows the ```json fence only
CleanResponseJsonOnly(t) ==
  IF IncludesJsonFence(t) THEN StripClosingFence(StripJsonFence(t)) ELSE t

\* the cleaning of the batch response before JSON.parse
CleanResponse(t) ==
  IF IncludesJsonFence(t) THEN StripClosingFence(StripJsonFence(t))
  ELSE IF IncludesFence(t) THEN StripClosingFence(StripFence(t))
  ELSE t

\* JSON.parse: white space around one well-formed value is accepted
JsonParse(t) ==
  LET u == Trim(t)
  IN IF Len(u) = 1 /\ u[1].k = "P"
       THEN [ok |-> TRUE, v |-> u[1].v]
       ELSE [ok |-> FALSE, v |-> NoValue]

(***************************************************************************)
(* The evaluation functions of the report.                                 *)
(***************************************************************************)
Evaluation(ref, sim, mp) ==
  [referenceAnswer |-> ref, similarity |-> sim, missingPoints |-> mp]

\* evaluations.find(e => e.questionIndex === idx): the position of the first
\* match (0: none); threw when a null is read before a match is found
RECURSIVE FindIndexed(_, _, _)
FindIndexed(evals, idx, from) ==
  IF from > Len(evals) THEN [threw |-> FALSE, pos |-> 0]
  ELSE IF evals[from].isNull THEN [threw |-> TRUE, pos |-> 0]
  ELSE IF evals[from].questionIndex = idx THEN [threw |-> FALSE, pos |-> from]
  ELSE FindIndexed(evals, idx, from + 1)

\* find(...) || evaluations[i] || {} for the 1-based position idx
PickEvaluation(evals, idx) ==
  LET f == FindIndexed(evals, idx, 1)
  IN IF f.pos > 0 THEN evals[f.pos]
     ELSE IF idx <= Len(evals) /\ ~evals[idx].isNull THEN evals[idx]
     ELSE EmptyObj

\* the object pushed for one picked evaluation
ToEvaluation(o) ==
  Evaluation(OrDefault(o.referenceAnswer, "No reference answer generated"),
             OrZero(o.similarity),
             OrDefault(o.missingPoints, "No missing points identified"))

ParseFailureDefaults(n) ==
  [k \in 1..n |->
     Evaluation("Unable to parse AI response for this question", Num(0),
                "Response parsing failed")]

RateLimitDefaults(n) ==
  [k \in 1..n |->
     Evaluation("Rate limit exceeded. Please upgrade your OpenAI plan or try again later.",
                Num(0), "Unable to evaluate due to API rate limits.")]

\* the mapping loop of the batch call over the parsed value v
MapEvaluations(v, n) ==
  LET evals == IF v.arr THEN v.items ELSE <<v.items[1]>>
  IN IF \E k \in 1..n : FindIndexed(evals, k, 1).threw
       THEN [ok |-> FALSE, results |-> <<>>]
       ELSE [ok |-> TRUE,
             results |-> [k \in 1..n |-> ToEvaluation(PickEvaluation(evals, k))]]

\* BatchFromText whose parse failure yields no evaluation at all, so that
\* generateReport falls back
BatchFromTextNoDefaults(t, n) ==
  LET parsed == JsonParse(CleanResponse(Trim(t)))
      mapped == MapEvaluations(parsed.v, n)
  IN IF parsed.ok /\ mapped.ok
       THEN [outcome |-> "parsed", evaluations |-> mapped.results]
       ELSE [outcome |-> "parseFailed", evaluations |-> <<>>]

\* evaluateAllAnswersWithOpenAI on a completion with the text t, for n pairs
BatchFromText(t, n) ==
  LET parsed == JsonParse(CleanResponse(Trim(t)))
      mapped == MapEvaluations(parsed.v, n)
  IN IF parsed.ok /\ mapped.ok
       THEN [outcome |-> "parsed", evaluations |-> mapped.results]
       ELSE [outcome |-> "parseFailed", evaluations |-> ParseFailureDefaults(n)]

\* evaluateAnswerWithOpenAI on a completion with the text t
SingleFromText(t) ==
  LET parsed == JsonParse(Trim(t))
      o == IF parsed.ok /\ ~parsed.v.arr THEN parsed.v.items[1] ELSE EmptyObj
  IN IF ~parsed.ok \/ o.isNull
       THEN Evaluation("Unable to parse AI response", Num(0), "Response parsing failed")
       ELSE ToEvaluation(o)

RateLimitSingle ==
  Evaluation("Rate limit exceeded. Please upgrade your OpenAI plan or try again later.",
             Num(0),
             "Unable to evaluate due to API rate limits. Consider upgrading to a paid plan.")

\* the entry generateReport pushes when a single-pair call throws
FailedSingle ==
  Evaluation("Unable to generate reference answer due to rate limits", Num(0),
             "Evaluation failed - API rate limit exceeded")

\* ShouldRetry with the bound off by one: a third retry
ShouldRetryOnceMore(kind, count) == kind = "rate" /\ count <= MaxRetries

\* error.status === 429 && retryCount < 2
ShouldRetry(kind, count) == kind = "rate" /\ count < MaxRetries

\* the wait before a retry, in ms
WaitTime(hint) ==
  IF hint >= 0 THEN hint * 1000 + BackoffMargin ELSE DefaultBackoff

\* ReportEntry with the two texts of the pair exchanged
ReportEntrySwapped(pair, e) ==
  [Question |-> pair.userAnswer, UserAnswer |-> pair.question,
   ReferenceAnswer |-> e.referenceAnswer, SimilarityScore |-> e.similarity,
   MissingPoints |-> e.missingPoints]

\* one entry of the report for the pair and its evaluation
ReportEntry(pair, e) ==
  [Question |-> pair.question, UserAnswer |-> pair.userAnswer,
   ReferenceAnswer |-> e.referenceAnswer, SimilarityScore |-> e.similarity,
   MissingPoints |-> e.missingPoints]

\* the loop of generateReport over the evaluations of the batch call
BatchEntries(pairs, evaluations) ==
  [k \in 1..Len(pairs) |-> ReportEntry(pairs[k], evaluations[k])]

(***************************************************************************)
(* The statistics of the report.                                           *)
(***************************************************************************)
\* reportData.reduce((sum, item) => sum + item["Similarity Score"], 0)
RECURSIVE SumScores(_)
SumScores(rd) ==
  IF rd = <<>> THEN Num(0)
  ELSE JsAdd(SumScores(SubSeq(rd, 1, Len(rd) - 1)), rd[Len(rd)].SimilarityScore)

\* Passed with > for >=
PassedStrict(item) ==
  LET x == ToNumber(item.SimilarityScore) IN x.t = "num" /\ x.n > PassThreshold

\* item["Similarity Score"] >= 70
Passed(item) == JsGE(item.SimilarityScore, PassThreshold)

\* reportData.filter(Passed).length
RECURSIVE CountPassed(_)
CountPassed(rd) ==
  IF rd = <<>> THEN 0
  ELSE (IF Passed(Head(rd)) THEN 1 ELSE 0) + CountPassed(Tail(rd))

\* a / b of two numbers as a fraction; 0 / 0 and NaN / b are NaN
Quotient(a, b) ==
  LET x == ToNumber(a)
  IN IF x.t = "nan" \/ (b = 0 /\ x.n = 0)
       THEN [nan |-> TRUE, num |-> 0, den |-> 1]
       ELSE [nan |-> FALSE, num |-> x.n, den |-> b]

\* Math.round(q * scale), NaN for NaN
RoundScaled(q, scale) ==
  IF q.nan \/ q.den = 0 THEN NaN ELSE Num(RoundDiv(q.num * scale, q.den))

\* Math.round((passedQuestions / totalQuestions) * 100)
PassRate(passed, total) == RoundScaled(Quotient(Num(passed), total), 100)

\* Math.round(q * 100) / 100: a number of two decimals, as its whole part and
\* its hundredths, or NaN
RoundToHundredths(q) ==
  IF q.nan \/ q.den = 0 THEN [nan |-> TRUE, whole |-> 0, hundredths |-> 0]
  ELSE LET w == q.num \div q.den
           h == RoundDiv((q.num % q.den) * 100, q.den)
       IN IF h = 100 THEN [nan |-> FALSE, whole |-> w + 1, hundredths |-> 0]
          ELSE [nan |-> FALSE, whole |-> w, hundredths |-> h]

\* the summary object of the final report
Summary(rd) ==
  [totalQuestions |-> Len(rd),
   averageScore |-> RoundToHundredths(Quotient(SumScores(rd), Len(rd))),
   passedQuestions |-> CountPassed(rd),
   passRate |-> PassRate(CountPassed(rd), Len(rd))]

(***************************************************************************)
(* The state.  POST /api/generate-report:                                  *)
(*   reqBody       the request body: isArray, and qaPairs when it is one   *)
(*   rpc           where the handler is: "received", at an await           *)
(*                 ("batchCall", "batchBackoff", "singleDelay",            *)
(*                 "singleCall", "singleBackoff", "insert") or "responded" *)
(*   retryCount    the retryCount of the evaluation call in progress       *)
(*   pairIndex     the loop variable i of the fallback loop                *)
(*   results       the results array of the fallback loop                  *)
(*   reportData, summary   the report once generateReport has returned     *)
(*   reportCode    the code of the report                                  *)
(*   reports       the unique_code and row of every stored report          *)
(*   rResponse     the response sent: status and body                      *)
(* and, recorded for the properties:                                       *)
(*   evalPath      "none", "batch" or "fallback": where reportData is from *)
(*   batchOutcome  how the batch call ended: "none", "parsed",             *)
(*                 "parseFailed", "rateLimited" or "threw"                 *)
(*   batchCalls, singleCalls   the provider calls made, by kind            *)
(*   attempts      the provider calls made so far for the evaluation call  *)
(*                 in progress (0 when none is)                            *)
(*   lastAttempts  the provider calls made for the evaluation call that    *)
(*                 ended last                                              *)
(*   lastKind      the kind of the provider's last answer                  *)
(*   batchKind     the kind of the provider's last answer to a batch call  *)
(*   waitTime      the length in ms of the backoff in progress (0: none)   *)
(*   lastText      the text of the provider's last answer (empty for an    *)
(*                 error)                                                  *)
(*   rSince        what the run did last of the two: a provider call       *)
(*                 ("call"), a delay or backoff ("wait"); "start" before   *)
(*                 both                                                    *)
(***************************************************************************)
VARIABLES reqBody, rpc, retryCount, pairIndex, results, reportData, summary,
          reportCode, reports, rResponse, evalPath, batchOutcome, batchCalls,
          singleCalls, attempts, lastAttempts, lastKind, batchKind, waitTime,
          rSince, lastText

rvars == <<reqBody, rpc, retryCount, pairIndex, results, reportData, summary,
           reportCode, reports, rResponse, evalPath, batchOutcome, batchCalls,
           singleCalls, attempts, lastAttempts, lastKind, batchKind,
           waitTime, rSince, lastText>>

(***************************************************************************)
(* The state.  POST /api/upload-presentation:                              *)
(*   hasFile       req.file is there                                       *)
(*   document      the uploaded document: its text, or corrupt             *)
(*   upc           where the handler is: "received", at an await           *)
(*                 ("extract", "questionDelay", "questionCall",            *)
(*                 "speechDelay", "speechCall", "convert", "upload",       *)
(*                 "insert"), "responded", or "crashed" when it threw out  *)
(*                 of its catch and sent no response                       *)
(*   uniqueCode    the code of the presentation; tempDir is temp/<code>    *)
(*   pdfPages      the page texts extractTextFromPdf returned              *)
(*   slideIndex    the loop variable i of processTextContent               *)
(*   slideData, questionsData, speechContent   the maps of                 *)
(*                 processTextContent, keyed by slide number               *)
(*   imageResults  the number of files convertPdfToImages listed           *)
(*   imageIndex    the loop variable i of uploadImagesToSupabase           *)
(*   imageUploadResults   the slide numbers of uploadedSlides              *)
(*   hasImages     the hasImages of the handler                            *)
(*   fileExists    the uploaded file is on disk                            *)
(*   scratch       the codes whose directory temp/<code> exists            *)
(*   storage       the objects of the bucket: code, slide, and whether     *)
(*                 this request wrote it (from)                            *)
(*   presentations the rows of the presentations table by unique_code      *)
(*   uResponse     the response sent                                       *)
(* and, recorded for the properties:                                       *)
(*   uCalls        the provider calls made                                 *)
(*   pageCalls     the provider calls made for each page of pdfPages       *)
(*   renderFailed  convertPdfToImages rejected                             *)
(*   dbFailed      the insert answered with an error                       *)
(*   rmFailed      removing the uploaded file threw                        *)
(*   genLog        the generation calls made: page, kind, result           *)
(*   lastGen       the answer to the generation call made last             *)
(*   uSince        what the run did last of the two: a provider call       *)
(*                 ("call"), a delay ("wait"); "start" before both         *)
(***************************************************************************)
VARIABLES hasFile, document, upc, uniqueCode, pdfPages, slideIndex, slideData,
          questionsData, speechContent, imageResults, imageIndex,
          imageUploadResults, hasImages, fileExists, scratch, storage,
          presentations, uResponse, uCalls, pageCalls, renderFailed, dbFailed,
          rmFailed, uSince, genLog, lastGen

uvars == <<hasFile, document, upc, uniqueCode, pdfPages, slideIndex, slideData,
           questionsData, speechContent, imageResults, imageIndex,
           imageUploadResults, hasImages, fileExists, scratch, storage,
           presentations, uResponse, uCalls, pageCalls, renderFailed, dbFailed,
           rmFailed, uSince, genLog, lastGen>>

(***************************************************************************)
(* The state.  Two requests to POST /api/upload-presentation in progress   *)
(* at the same time, as far as they touch what they share (the temp        *)
(* directory, the bucket, the presentations table):                        *)
(*   runPc       where each run is: "received", at the await of the        *)
(*               conversion ("convert"; the text path before it touches    *)
(*               nothing shared), of an upload ("upload"), of the insert   *)
(*               ("insert"), or "done"                                     *)
(*   runCode     the uniqueCode of each run, 0 before it is drawn          *)
(*   runListed   the number of files the run's readdir listed              *)
(*   runIndex    the loop variable i of the run's uploadImagesToSupabase   *)
(*   dirs        the codes whose directory temp/<code> exists              *)
(*   files       the files in these directories: code, number n of         *)
(*               slide_<n>.png, and the run that wrote it (by)             *)
(*   bucket      the objects of the bucket: code, slide, the run that      *)
(*               uploaded it (by) and the run that rendered it (image)     *)
(*   rows        the unique_code values of the presentations table         *)
(* and, recorded for the properties:                                       *)
(*   overwritten     an upload replaced an object the other run uploaded   *)
(*   removedUnderRun a clean-up removed the directory the other run was    *)
(*                   still working in                                      *)
(***************************************************************************)
VARIABLES runPc, runCode, runListed, runIndex, dirs, files, bucket, rows,
          overwritten, removedUnderRun

cvars == <<runPc, runCode, runListed, runIndex, dirs, files, bucket, rows,
           overwritten, removedUnderRun>>

vars == <<rvars, uvars, cvars>>

\* A text of a request is told by a number, 0 being the empty or missing
\* text.
Pair(q, a) == [question |-> q, userAnswer |-> a]

\* the k-th pair of a valid request
PairAt(k) == Pair(k, 100 + k)

\* a pair the validation rejects: its question is missing
InvalidPair == Pair(0, 101)

\* generateUniqueCode: a 5-digit code
CodeValues == {10000, 99999}

NoSummary ==
  [totalQuestions |-> 0,
   averageScore |-> [nan |-> FALSE, whole |-> 0, hundredths |-> 0],
   passedQuestions |-> 0, passRate |-> Num(0)]

NoResponse == [status |-> 0, summary |-> NoSummary, evaluations |-> <<>>]

\* no array, an array of n valid pairs, an array with an invalid pair
RequestBodies ==
  {[isArray |-> FALSE, qaPairs |-> <<>>]}
    \cup {[isArray |-> TRUE, qaPairs |-> [k \in 1..n |-> PairAt(k)]] :
            n \in 0..MaxPairs}
    \cup {[isArray |-> TRUE, qaPairs |-> <<PairAt(1), InvalidPair>>]}

\* the codes of the reports stored before the request
StoredBefore == {10000}

\* !pair.question || !pair.userAnswer
PairInvalid(pair) == pair.question = 0 \/ pair.userAnswer = 0

\* the validation of the request body
BodyValid(body) ==
  body.isArray /\ \A k \in 1..Len(body.qaPairs) : ~PairInvalid(body.qaPairs[k])

\* generateReport returns rd: the statistics are computed and the insert is
\* awaited
ReturnReport(rd, path) ==
  /\ reportData' = rd
  /\ summary' = Summary(rd)
  /\ evalPath' = path
  /\ rpc' = "insert"

\* the evaluation call in progress retries: one more attempt was made
CallRetries(o) ==
  /\ attempts' = attempts + 1
  /\ lastKind' = o.kind
  /\ waitTime' = WaitTime(o.hint)
  /\ UNCHANGED lastAttempts

\* the evaluation call in progress returns or throws
CallEnds(o) ==
  /\ attempts' = 0
  /\ lastAttempts' = attempts + 1
  /\ lastKind' = o.kind
  /\ UNCHANGED waitTime

\* the handler up to its first await: validation, the code, the batch call
ReceiveReport ==
  /\ rpc = "received"
  /\ IF BodyValid(reqBody)
       THEN /\ \E c \in CodeValues : reportCode' = c
            /\ rpc' = "batchCall"
            /\ rResponse' = rResponse
       ELSE /\ rResponse' = [NoResponse EXCEPT !.status = 400]
            /\ rpc' = "responded"
            /\ reportCode' = reportCode
  /\ UNCHANGED <<reqBody, retryCount, pairIndex, results, reportData, summary,
                 reports, evalPath, batchOutcome, batchCalls, singleCalls,
                 attempts, lastAttempts, lastKind, batchKind, waitTime>>
  /\ UNCHANGED rSince
  /\ UNCHANGED lastText
  /\ UNCHANGED <<uvars, cvars>>

\* FallbackFrom with no delay between the pairs
FallbackFromNoDelay(k, rs) ==
  /\ pairIndex' = k
  /\ results' = rs
  /\ retryCount' = 0
  /\ IF k < Len(reqBody.qaPairs)
       THEN /\ rpc' = "singleCall"
            /\ evalPath' = "fallback"
            /\ UNCHANGED <<reportData, summary>>
       ELSE ReturnReport(rs, "fallback")

\* FallbackFrom that keeps an entry of the batch call for the first pair and
\* starts the loop at the second
FallbackFromKeepsFirst(k, rs) ==
  LET keep == k = 0 /\ Len(reqBody.qaPairs) > 0
      k2 == IF keep THEN 1 ELSE k
      rs2 == IF keep
               THEN <<ReportEntry(reqBody.qaPairs[1], ParseFailureDefaults(1)[1])>>
               ELSE rs
  IN /\ pairIndex' = k2
     /\ results' = rs2
     /\ retryCount' = 0
     /\ IF k2 < Len(reqBody.qaPairs)
          THEN /\ rpc' = "singleDelay"
               /\ evalPath' = "fallback"
               /\ UNCHANGED <<reportData, summary>>
          ELSE ReturnReport(rs2, "fallback")

\* the fallback loop of generateReport from pair k (0-based) with the results
\* rs so far, up to its next await: a delay, a single-pair call, or the insert
\* once the loop is over
FallbackFrom(k, rs) ==
  /\ pairIndex' = k
  /\ results' = rs
  /\ retryCount' = 0
  /\ IF k < Len(reqBody.qaPairs)
       THEN /\ rpc' = IF k > 0 THEN "singleDelay" ELSE "singleCall"
            /\ evalPath' = "fallback"
            /\ UNCHANGED <<reportData, summary>>
       ELSE ReturnReport(rs, "fallback")

\* RateLimited when the rate-limit error is thrown like any other
RateLimitedRethrown(kind) == FALSE

\* error.status === 429 once no retry is left: the call returns its
\* rate-limit defaults; any other error is thrown
RateLimited(kind) == kind = "rate"

\* BatchEnd that gives up on the text of a retried call
BatchEndDegradedAfterRetry(o, n) ==
  IF o.kind = "text" /\ retryCount = 0
    THEN LET b == BatchFromText(o.text, n)
         IN [threw |-> FALSE, outcome |-> b.outcome, evaluations |-> b.evaluations]
  ELSE IF o.kind = "text"
    THEN [threw |-> FALSE, outcome |-> "parseFailed",
          evaluations |-> ParseFailureDefaults(n)]
  ELSE IF RateLimited(o.kind)
    THEN [threw |-> FALSE, outcome |-> "rateLimited",
          evaluations |-> RateLimitDefaults(n)]
  ELSE [threw |-> TRUE, outcome |-> "threw", evaluations |-> <<>>]

\* BatchEnd that throws on a text that does not parse
BatchEndThrowsOnParseFailure(o, n) ==
  IF o.kind = "text"
    THEN LET b == BatchFromText(o.text, n)
         IN IF b.outcome = "parsed"
              THEN [threw |-> FALSE, outcome |-> b.outcome,
                    evaluations |-> b.evaluations]
              ELSE [threw |-> TRUE, outcome |-> "threw", evaluations |-> <<>>]
  ELSE IF RateLimited(o.kind)
    THEN [threw |-> FALSE, outcome |-> "rateLimited",
          evaluations |-> RateLimitDefaults(n)]
  ELSE [threw |-> TRUE, outcome |-> "threw", evaluations |-> <<>>]

\* how evaluateAllAnswersWithOpenAI ends for n pairs on the answer o that is
\* not retried
BatchEnd(o, n) ==
  IF o.kind = "text"
    THEN LET b == BatchFromText(o.text, n)
         IN [threw |-> FALSE, outcome |-> b.outcome, evaluations |-> b.evaluations]
  ELSE IF RateLimited(o.kind)
    THEN [threw |-> FALSE, outcome |-> "rateLimited",
          evaluations |-> RateLimitDefaults(n)]
  ELSE [threw |-> TRUE, outcome |-> "threw", evaluations |-> <<>>]

\* one attempt of evaluateAllAnswersWithOpenAI: the provider answers with o.
\* generateReport reads evaluations[i] for every pair and falls back when the
\* call threw or an evaluation is missing
BatchCall ==
  /\ rpc = "batchCall"
  /\ \E o \in OutcomesOver(BatchTexts) :
       /\ batchCalls' = batchCalls + 1
       /\ lastText' = o.text
       /\ batchKind' = o.kind
       /\ IF ShouldRetry(o.kind, retryCount)
            THEN /\ rpc' = "batchBackoff"
                 /\ CallRetries(o)
                 /\ UNCHANGED <<retryCount, pairIndex, results, reportData,
                                summary, evalPath, batchOutcome>>
            ELSE LET e == BatchEnd(o, Len(reqBody.qaPairs))
                 IN /\ batchOutcome' = e.outcome
                    /\ CallEnds(o)
                    /\ IF e.threw \/ Len(e.evaluations) < Len(reqBody.qaPairs)
                         THEN FallbackFrom(0, <<>>)
                         ELSE /\ ReturnReport(BatchEntries(reqBody.qaPairs,
                                                           e.evaluations),
                                              "batch")
                              /\ UNCHANGED <<retryCount, pairIndex, results>>
  /\ UNCHANGED <<reqBody, reportCode, reports, rResponse, singleCalls>>
  /\ rSince' = "call"
  /\ UNCHANGED <<uvars, cvars>>

\* the wait before the retry of the batch call is over: the call is made again
BatchBackoff ==
  /\ rpc = "batchBackoff"
  /\ retryCount' = retryCount + 1
  /\ waitTime' = 0
  /\ rpc' = "batchCall"
  /\ UNCHANGED <<reqBody, pairIndex, results, reportData, summary, reportCode,
                 reports, rResponse, evalPath, batchOutcome, batchCalls,
                 singleCalls, attempts, lastAttempts, lastKind, batchKind>>
  /\ rSince' = "wait"
  /\ UNCHANGED lastText
  /\ UNCHANGED <<uvars, cvars>>

\* the 25 s delay before the single-pair call of a pair after the first
SingleDelay ==
  /\ rpc = "singleDelay"
  /\ rpc' = "singleCall"
  /\ UNCHANGED <<reqBody, retryCount, pairIndex, results, reportData, summary,
                 reportCode, reports, rResponse, evalPath, batchOutcome,
                 batchCalls, singleCalls, attempts, lastAttempts, lastKind,
                 batchKind, waitTime>>
  /\ rSince' = "wait"
  /\ UNCHANGED lastText
  /\ UNCHANGED <<uvars, cvars>>

\* how evaluateAnswerWithOpenAI ends on the answer o that is not retried
SingleEnd(o) ==
  IF o.kind = "text" THEN [threw |-> FALSE, evaluation |-> SingleFromText(o.text)]
  ELSE IF RateLimited(o.kind) THEN [threw |-> FALSE, evaluation |-> RateLimitSingle]
  ELSE [threw |-> TRUE, evaluation |-> FailedSingle]

\* PushSingle whose catch pushes nothing
PushSingleNoCatchEntry(rs, pair, o) ==
  IF SingleEnd(o).threw THEN rs
  ELSE Append(rs, ReportEntry(pair, SingleEnd(o).evaluation))

\* the body of the fallback loop for one pair once its call has ended: the
\* entry of the evaluation, or the entry of the catch, is pushed
PushSingle(rs, pair, o) == Append(rs, ReportEntry(pair, SingleEnd(o).evaluation))

\* one attempt of evaluateAnswerWithOpenAI for the pair pairIndex: the provider
\* answers with o
SingleCall ==
  /\ rpc = "singleCall"
  /\ \E o \in OutcomesOver(SingleTexts) :
       /\ singleCalls' = singleCalls + 1
       /\ lastText' = o.text
       /\ IF ShouldRetry(o.kind, retryCount)
            THEN /\ rpc' = "singleBackoff"
                 /\ CallRetries(o)
                 /\ UNCHANGED <<retryCount, pairIndex, results, reportData,
                                summary, evalPath>>
            ELSE /\ FallbackFrom(pairIndex + 1,
                                 PushSingle(results,
                                            reqBody.qaPairs[pairIndex + 1], o))
                 /\ CallEnds(o)
  /\ UNCHANGED <<reqBody, reportCode, reports, rResponse, batchOutcome,
                 batchCalls, batchKind>>
  /\ rSince' = "call"
  /\ UNCHANGED <<uvars, cvars>>

\* the wait before the retry of a single-pair call is over
SingleBackoff ==
  /\ rpc = "singleBackoff"
  /\ retryCount' = retryCount + 1
  /\ waitTime' = 0
  /\ rpc' = "singleCall"
  /\ UNCHANGED <<reqBody, pairIndex, results, reportData, summary, reportCode,
                 reports, rResponse, evalPath, batchOutcome, batchCalls,
                 singleCalls, attempts, lastAttempts, lastKind, batchKind>>
  /\ rSince' = "wait"
  /\ UNCHANGED lastText
  /\ UNCHANGED <<uvars, cvars>>

\* the insert into the reports table answers (unique_code is UNIQUE there) and
\* the response is sent
InsertReport ==
  /\ rpc = "insert"
  /\ \E dbError \in BOOLEAN :
       /\ reportCode \in DOMAIN reports => dbError
       /\ IF dbError
            THEN /\ rResponse' = [NoResponse EXCEPT !.status = 500]
                 /\ reports' = reports
            ELSE /\ rResponse' = [status |-> 200, summary |-> summary,
                                  evaluations |-> reportData]
                 /\ reports' = [c \in DOMAIN reports \cup {reportCode} |->
                                  IF c = reportCode THEN summary ELSE reports[c]]
  /\ rpc' = "responded"
  /\ UNCHANGED <<reqBody, retryCount, pairIndex, results, reportData, summary,
                 reportCode, evalPath, batchOutcome, batchCalls, singleCalls,
                 attempts, lastAttempts, lastKind, batchKind, waitTime>>
  /\ UNCHANGED rSince
  /\ UNCHANGED lastText
  /\ UNCHANGED <<uvars, cvars>>

(***************************************************************************)
(* Documents.  A text is a sequence of characters: "x" any character that  *)
(* is no white space, " " a space, "n" a line feed, "f" a form feed.       *)
(***************************************************************************)
Chars(c, n) == [k \in 1..n |-> c]

IsWs(c) == c \in {" ", "n", "f"}

RECURSIVE TrimLeft(_)
TrimLeft(t) == IF t # <<>> /\ IsWs(Head(t)) THEN TrimLeft(Tail(t)) ELSE t

RECURSIVE TrimRight(_)
TrimRight(t) ==
  IF t # <<>> /\ IsWs(t[Len(t)]) THEN TrimRight(SubSeq(t, 1, Len(t) - 1)) ELSE t

\* String.prototype.trim on a text
TrimText(t) == TrimRight(TrimLeft(t))

\* text.split(c) for a character c
RECURSIVE SplitAt(_, _)
SplitAt(t, c) ==
  IF \A p \in 1..Len(t) : t[p] # c THEN <<t>>
  ELSE LET p == CHOOSE q \in 1..Len(t) :
                  t[q] = c /\ \A r \in 1..(q - 1) : t[r] # c
       IN <<SubSeq(t, 1, p - 1)>> \o SplitAt(SubSeq(t, p + 1, Len(t)), c)

\* the last position of the white space that starts at p
RECURSIVE RunEnd(_, _)
RunEnd(t, p) == IF p < Len(t) /\ IsWs(t[p + 1]) THEN RunEnd(t, p + 1) ELSE p

LineFeeds(t, from, to) == {q \in from..to : t[q] = "n"}

\* /\n\s*\n\s*\n/ matches at p: a line feed whose white space holds two more
MatchesAt(t, p) ==
  t[p] = "n" /\ Cardinality(LineFeeds(t, p, RunEnd(t, p))) >= 3

\* text.split(/\n\s*\n\s*\n/): the leftmost match runs to the last line feed
\* of its white space
RECURSIVE SplitBlankLines(_)
SplitBlankLines(t) ==
  IF \A p \in 1..Len(t) : ~MatchesAt(t, p) THEN <<t>>
  ELSE LET p == CHOOSE q \in 1..Len(t) :
                  MatchesAt(t, q) /\ \A r \in 1..(q - 1) : ~MatchesAt(t, r)
           e == CHOOSE q \in LineFeeds(t, p, RunEnd(t, p)) :
                  \A r \in LineFeeds(t, p, RunEnd(t, p)) : r <= q
       IN <<SubSeq(t, 1, p - 1)>> \o SplitBlankLines(SubSeq(t, e + 1, Len(t)))

\* pages.filter(page => page.trim().length > 0)
RECURSIVE NonBlank(_)
NonBlank(pages) ==
  IF pages = <<>> THEN <<>>
  ELSE (IF Len(TrimText(Head(pages))) > 0 THEN <<Head(pages)>> ELSE <<>>)
         \o NonBlank(Tail(pages))

\* ExtractPages that never splits again on blank lines
ExtractPagesNoResplit(doc) ==
  IF doc.corrupt THEN <<>> ELSE NonBlank(SplitAt(doc.text, "f"))

\* extractTextFromPdf: the page texts, [] when reading or parsing fails
ExtractPages(doc) ==
  IF doc.corrupt THEN <<>>
  ELSE LET pages == SplitAt(doc.text, "f")
       IN IF Len(pages) = 1 THEN NonBlank(SplitBlankLines(doc.text))
          ELSE NonBlank(pages)

\* the page blocks documents are made of: 11 characters; 10 characters in
\* white space; white space only
BlockValues ==
  { Chars("x", MinTextLength + 1),
    <<" ", " ">> \o Chars("x", MinTextLength) \o <<" ">>,
    <<" ", " ">> }

\* the separators between the blocks: a form feed, blank lines
Separators == {<<"f">>, <<"n", " ", "n", "n">>}

RECURSIVE Join(_, _)
Join(blocks, sep) ==
  IF blocks = <<>> THEN <<>>
  ELSE IF Len(blocks) = 1 THEN blocks[1]
  ELSE blocks[1] \o sep \o Join(Tail(blocks), sep)

\* the texts of the readable documents, two of them with no separator: one
\* with a line feed, one with a single blank line
DocumentTexts ==
  {Join(bs, sep) : bs \in SeqsUpTo(BlockValues, MaxPages), sep \in Separators}
    \cup {Chars("x", 6) \o <<"n">> \o Chars("x", 6),
          Chars("x", 6) \o <<"n", "n">> \o Chars("x", 6)}

Documents ==
  {[corrupt |-> FALSE, text |-> t] : t \in DocumentTexts}
    \cup {[corrupt |-> TRUE, text |-> <<>>]}

\* obj[k] = v on a map keyed by slide number
Put(f, k, v) == [x \in DOMAIN f \cup {k} |-> IF x = k THEN v ELSE f[x]]

NoUpload ==
  [status |-> 0, code |-> 0, slideCount |-> 0, hasImages |-> FALSE,
   uploadedImages |-> 0]

\* the presentation stored before the request, with one slide image
StoredPresentation ==
  [slide_count |-> 1, slide_texts |-> <<Chars("x", MinTextLength + 1)>>,
   questions |-> <<>>, speech_content |-> <<>>, has_images |-> TRUE]

\* the codes of the presentations stored before the request
PresentationsBefore == {10000}

\* the two runs in progress at the same time
Runs == {"a", "b"}

\* one request to POST /api/upload-presentation; the other handler is idle
InitUpload ==
  /\ hasFile \in BOOLEAN
  /\ document \in Documents
  /\ upc = "received"
  /\ uniqueCode = 0
  /\ pdfPages = <<>>
  /\ slideIndex = 0
  /\ slideData = <<>>
  /\ questionsData = <<>>
  /\ speechContent = <<>>
  /\ imageResults = 0
  /\ imageIndex = 0
  /\ imageUploadResults = {}
  /\ hasImages = FALSE
  /\ fileExists = hasFile
  /\ scratch = {}
  /\ storage = {[code |-> c, slide |-> 1, from |-> "before"] :
                  c \in PresentationsBefore}
  /\ presentations = [c \in PresentationsBefore |-> StoredPresentation]
  /\ uResponse = NoUpload
  /\ uCalls = 0
  /\ pageCalls = <<>>
  /\ renderFailed = FALSE
  /\ dbFailed = FALSE
  /\ rmFailed = FALSE
  /\ uSince = "start"
  /\ genLog = {}
  /\ lastGen = "none"
  /\ reqBody = [isArray |-> FALSE, qaPairs |-> <<>>]
  /\ rpc = "idle"
  /\ retryCount = 0
  /\ pairIndex = 0
  /\ results = <<>>
  /\ reportData = <<>>
  /\ summary = NoSummary
  /\ reportCode = 0
  /\ reports = [c \in StoredBefore |-> NoSummary]
  /\ rResponse = NoResponse
  /\ evalPath = "none"
  /\ batchOutcome = "none"
  /\ batchCalls = 0
  /\ singleCalls = 0
  /\ attempts = 0
  /\ lastAttempts = 0
  /\ lastKind = "none"
  /\ batchKind = "none"
  /\ waitTime = 0
  /\ rSince = "start"
  /\ lastText = <<>>
  /\ runPc = [r \in Runs |-> "idle"]
  /\ runCode = [r \in Runs |-> 0]
  /\ runListed = [r \in Runs |-> 0]
  /\ runIndex = [r \in Runs |-> 0]
  /\ dirs = {}
  /\ files = {}
  /\ bucket = {}
  /\ rows = PresentationsBefore
  /\ overwritten = FALSE
  /\ removedUnderRun = FALSE

\* LongEnough with a page of exactly 10 characters let through
LongEnoughInclusive(text) == Len(text) >= MinTextLength

\* extractedText && extractedText.length > 10, for the trimmed text
LongEnough(text) == Len(text) > MinTextLength

\* the slide numbers from k + 1 on that pass the length check
Eligible(pages, k) ==
  {n \in (k + 1)..Len(pages) : LongEnough(TrimText(pages[n]))}

\* ProcessFrom that takes the pages from the last one down
ProcessFromLast(k, pages, sd) ==
  LET todo == {n \in 1..Len(pages) :
                 LongEnough(TrimText(pages[n])) /\ n \notin DOMAIN sd}
  IN IF todo # {}
       THEN LET n == CHOOSE m \in todo : \A q \in todo : m >= q
            IN /\ slideIndex' = n - 1
               /\ slideData' = Put(sd, n, TrimText(pages[n]))
               /\ upc' = IF n - 1 > 0 THEN "questionDelay" ELSE "questionCall"
       ELSE /\ slideIndex' = Len(pages)
            /\ slideData' = sd
            /\ upc' = "convert"

\* ProcessFrom that stores the presentation as soon as a page has its text
ProcessFromPersistsFirst(k, pages, sd) ==
  IF Eligible(pages, k) # {}
    THEN LET n == CHOOSE m \in Eligible(pages, k) :
                    \A q \in Eligible(pages, k) : m <= q
         IN /\ slideIndex' = n - 1
            /\ slideData' = Put(sd, n, TrimText(pages[n]))
            /\ upc' = "insert"
    ELSE /\ slideIndex' = Len(pages)
         /\ slideData' = sd
         /\ upc' = "convert"

\* ProcessFrom that does not keep the text of the page it takes
ProcessFromNoText(k, pages, sd) ==
  IF Eligible(pages, k) # {}
    THEN LET n == CHOOSE m \in Eligible(pages, k) :
                    \A q \in Eligible(pages, k) : m <= q
         IN /\ slideIndex' = n - 1
            /\ slideData' = sd
            /\ upc' = IF n - 1 > 0 THEN "questionDelay" ELSE "questionCall"
    ELSE /\ slideIndex' = Len(pages)
         /\ slideData' = sd
         /\ upc' = "convert"

\* the loop of processTextContent from page k (0-based) up to its next await:
\* the pages that are too short are skipped; the first other one gets its
\* slide text and waits for its question (after a delay when it is not page
\* 0); with no such page the loop ends and the conversion is awaited
ProcessFrom(k, pages, sd) ==
  IF Eligible(pages, k) # {}
    THEN LET n == CHOOSE m \in Eligible(pages, k) :
                    \A q \in Eligible(pages, k) : m <= q
         IN /\ slideIndex' = n - 1
            /\ slideData' = Put(sd, n, TrimText(pages[n]))
            /\ upc' = IF n - 1 > 0 THEN "questionDelay" ELSE "questionCall"
    ELSE /\ slideIndex' = Len(pages)
         /\ slideData' = sd
         /\ upc' = "convert"

\* the handler up to its first await: the file check, the code, the scratch
\* directory, the text extraction
ReceiveUpload ==
  /\ upc = "received"
  /\ IF hasFile
       THEN /\ \E c \in CodeValues :
                 /\ uniqueCode' = c
                 /\ scratch' = scratch \cup {c}
            /\ upc' = "extract"
            /\ uResponse' = uResponse
       ELSE /\ uResponse' = [NoUpload EXCEPT !.status = 400]
            /\ upc' = "responded"
            /\ UNCHANGED <<uniqueCode, scratch>>
  /\ UNCHANGED <<hasFile, document, pdfPages, slideIndex, slideData,
                 questionsData, speechContent, imageResults, imageIndex,
                 imageUploadResults, hasImages, fileExists, storage,
                 presentations, uCalls, pageCalls, renderFailed, dbFailed,
                 rmFailed>>
  /\ UNCHANGED uSince
  /\ UNCHANGED <<genLog, lastGen>>
  /\ UNCHANGED <<rvars, cvars>>

\* ExtractText that leaves the text alone and goes on to the rendering
ExtractTextSkipped ==
  /\ upc = "extract"
  /\ pdfPages' = <<>>
  /\ pageCalls' = <<>>
  /\ ProcessFrom(0, <<>>, <<>>)
  /\ UNCHANGED <<hasFile, document, uniqueCode, questionsData, speechContent,
                 imageResults, imageIndex, imageUploadResults, hasImages,
                 fileExists, scratch, storage, presentations, uResponse, uCalls,
                 renderFailed, dbFailed, rmFailed>>
  /\ UNCHANGED uSince
  /\ UNCHANGED <<genLog, lastGen>>
  /\ UNCHANGED <<rvars, cvars>>

\* extractTextFromPdf returns; processTextContent starts
ExtractText ==
  /\ upc = "extract"
  /\ pdfPages' = ExtractPages(document)
  /\ pageCalls' = [n \in 1..Len(ExtractPages(document)) |-> 0]
  /\ ProcessFrom(0, ExtractPages(document), <<>>)
  /\ UNCHANGED <<hasFile, document, uniqueCode, questionsData, speechContent,
                 imageResults, imageIndex, imageUploadResults, hasImages,
                 fileExists, scratch, storage, presentations, uResponse, uCalls,
                 renderFailed, dbFailed, rmFailed>>
  /\ UNCHANGED uSince
  /\ UNCHANGED <<genLog, lastGen>>
  /\ UNCHANGED <<rvars, cvars>>

\* the 25 s delay before the question call of a page after the first
QuestionDelay ==
  /\ upc = "questionDelay"
  /\ upc' = "questionCall"
  /\ UNCHANGED <<hasFile, document, uniqueCode, pdfPages, slideIndex, slideData,
                 questionsData, speechContent, imageResults, imageIndex,
                 imageUploadResults, hasImages, fileExists, scratch, storage,
                 presentations, uResponse, uCalls, pageCalls, renderFailed,
                 dbFailed, rmFailed>>
  /\ uSince' = "wait"
  /\ UNCHANGED <<genLog, lastGen>>
  /\ UNCHANGED <<rvars, cvars>>

\* the answers to a generation call: a text, a text of white space only, a
\* rate-limit error, another error
GenerationOutcomes == {"text", "blank", "rate", "error"}

\* the record of a generation call: its page, its kind, and whether the
\* provider failed ("failed"), answered white space ("blank") or a text
Logged(n, kind, o) ==
  [page |-> n, kind |-> kind,
   res |-> IF o \in {"rate", "error"} THEN "failed" ELSE o]

\* Generated with a text also when the provider fails
GeneratedAlways(o, text) == IF o = "blank" THEN "" ELSE text

\* generateQuestionsWithOpenAI / generateSpeechContentWithOpenAI: the trimmed
\* text ("" for a blank one), null ("" here too) on any error
Generated(o, text) == IF o = "text" THEN text ELSE ""

\* QuestionCall under the retry policy of the evaluation calls: a rate-limited
\* call is made again, up to MaxRetries times
QuestionCallRetried ==
  /\ upc = "questionCall"
  /\ \E o \in GenerationOutcomes :
       /\ questionsData' =
            IF Generated(o, "Q") # ""
              THEN Put(questionsData, slideIndex + 1, <<Generated(o, "Q")>>)
              ELSE questionsData
       /\ genLog' = genLog \cup {Logged(slideIndex + 1, "question", o)}
       /\ lastGen' = o
       /\ upc' = IF ShouldRetry(o, pageCalls[slideIndex + 1])
                   THEN "questionCall" ELSE "speechDelay"
  /\ uCalls' = uCalls + 1
  /\ pageCalls' = [pageCalls EXCEPT ![slideIndex + 1] = @ + 1]
  /\ UNCHANGED <<hasFile, document, uniqueCode, pdfPages, slideIndex, slideData,
                 speechContent, imageResults, imageIndex, imageUploadResults,
                 hasImages, fileExists, scratch, storage, presentations,
                 uResponse, renderFailed, dbFailed, rmFailed>>
  /\ uSince' = "call"
  /\ UNCHANGED <<rvars, cvars>>

\* QuestionCall that goes on to the next page when the question failed
QuestionCallSkipsSpeech ==
  /\ upc = "questionCall"
  /\ \E o \in GenerationOutcomes :
       /\ questionsData' =
            IF Generated(o, "Q") # ""
              THEN Put(questionsData, slideIndex + 1, <<Generated(o, "Q")>>)
              ELSE questionsData
       /\ genLog' = genLog \cup {Logged(slideIndex + 1, "question", o)}
       /\ lastGen' = o
       /\ IF Generated(o, "Q") # ""
            THEN /\ upc' = "speechDelay"
                 /\ UNCHANGED <<slideIndex, slideData>>
            ELSE ProcessFrom(slideIndex + 1, pdfPages, slideData)
  /\ uCalls' = uCalls + 1
  /\ pageCalls' = [pageCalls EXCEPT ![slideIndex + 1] = @ + 1]
  /\ UNCHANGED <<hasFile, document, uniqueCode, pdfPages,
                 speechContent, imageResults, imageIndex, imageUploadResults,
                 hasImages, fileExists, scratch, storage, presentations,
                 uResponse, renderFailed, dbFailed, rmFailed>>
  /\ uSince' = "call"
  /\ UNCHANGED <<rvars, cvars>>

\* generateQuestionsWithOpenAI for the slide slideIndex + 1 answers
QuestionCall ==
  /\ upc = "questionCall"
  /\ \E o \in GenerationOutcomes :
       /\ questionsData' =
            IF Generated(o, "Q") # ""
              THEN Put(questionsData, slideIndex + 1, <<Generated(o, "Q")>>)
              ELSE questionsData
       /\ genLog' = genLog \cup {Logged(slideIndex + 1, "question", o)}
       /\ lastGen' = o
  /\ uCalls' = uCalls + 1
  /\ pageCalls' = [pageCalls EXCEPT ![slideIndex + 1] = @ + 1]
  /\ upc' = "speechDelay"
  /\ UNCHANGED <<hasFile, document, uniqueCode, pdfPages, slideIndex, slideData,
                 speechContent, imageResults, imageIndex, imageUploadResults,
                 hasImages, fileExists, scratch, storage, presentations,
                 uResponse, renderFailed, dbFailed, rmFailed>>
  /\ uSince' = "call"
  /\ UNCHANGED <<rvars, cvars>>

\* the 25 s delay before the speech call
SpeechDelay ==
  /\ upc = "speechDelay"
  /\ upc' = "speechCall"
  /\ UNCHANGED <<hasFile, document, uniqueCode, pdfPages, slideIndex, slideData,
                 questionsData, speechContent, imageResults, imageIndex,
                 imageUploadResults, hasImages, fileExists, scratch, storage,
                 presentations, uResponse, uCalls, pageCalls, renderFailed,
                 dbFailed, rmFailed>>
  /\ uSince' = "wait"
  /\ UNCHANGED <<genLog, lastGen>>
  /\ UNCHANGED <<rvars, cvars>>

\* generateSpeechContentWithOpenAI for the slide slideIndex + 1 answers; the
\* loop goes on
SpeechCall ==
  /\ upc = "speechCall"
  /\ \E o \in GenerationOutcomes :
       /\ speechContent' =
            IF Generated(o, "S") # ""
              THEN Put(speechContent, slideIndex + 1, Generated(o, "S"))
              ELSE speechContent
       /\ genLog' = genLog \cup {Logged(slideIndex + 1, "speech", o)}
       /\ lastGen' = o
  /\ uCalls' = uCalls + 1
  /\ pageCalls' = [pageCalls EXCEPT ![slideIndex + 1] = @ + 1]
  /\ ProcessFrom(slideIndex + 1, pdfPages, slideData)
  /\ UNCHANGED <<hasFile, document, uniqueCode, pdfPages, questionsData,
                 imageResults, imageIndex, imageUploadResults, hasImages,
                 fileExists, scratch, storage, presentations, uResponse,
                 renderFailed, dbFailed, rmFailed>>
  /\ uSince' = "call"
  /\ UNCHANGED <<rvars, cvars>>

\* the answers of convertPdfToImages: it rejects (the script or the listing
\* of the directory failed), or it resolves with the files of the directory
ConvertOutcomes == {"failed", "listed"}

\* ConvertEnd without the inner try: a rejection reaches the catch block
ConvertEndUncaught(o, m) ==
  IF o = "failed"
    THEN /\ renderFailed' = TRUE
         /\ hasImages' = FALSE
         /\ upc' = "responded"
         /\ uResponse' = [NoUpload EXCEPT !.status = 500]
         /\ fileExists' = FALSE
         /\ scratch' = scratch \ {uniqueCode}
         /\ UNCHANGED <<imageResults, imageIndex>>
    ELSE /\ renderFailed' = FALSE
         /\ hasImages' = FALSE
         /\ imageResults' = m
         /\ imageIndex' = 0
         /\ upc' = IF m > 0 THEN "upload" ELSE "insert"
         /\ UNCHANGED <<uResponse, fileExists, scratch>>

\* the end of the inner try of the handler: a rejection is caught, hasImages
\* stays false and the handler goes on to the insert; a listing with no file
\* ends uploadImagesToSupabase at once; any other listing is uploaded
ConvertEnd(o, m) ==
  /\ renderFailed' = (o = "failed")
  /\ hasImages' = FALSE
  /\ IF o = "failed"
       THEN /\ upc' = "insert"
            /\ UNCHANGED <<imageResults, imageIndex>>
       ELSE /\ imageResults' = m
            /\ imageIndex' = 0
            /\ upc' = IF m > 0 THEN "upload" ELSE "insert"
  /\ UNCHANGED <<uResponse, fileExists, scratch>>

\* convertPdfToImages answers
ConvertImages ==
  /\ upc = "convert"
  /\ \E o \in ConvertOutcomes, m \in 0..MaxImages : ConvertEnd(o, m)
  /\ UNCHANGED <<hasFile, document, uniqueCode, pdfPages, slideIndex, slideData,
                 questionsData, speechContent, imageUploadResults, storage,
                 presentations, uCalls, pageCalls, dbFailed, rmFailed>>
  /\ UNCHANGED uSince
  /\ UNCHANGED <<genLog, lastGen>>
  /\ UNCHANGED <<rvars, cvars>>

\* the answers to the upload of one image: stored, an uploadError, a throw
UploadOutcomes == {"ok", "error", "thrown"}

\* upload(fileName, ..., {upsert: true}) of the object <code>/slide_<n>.png
Upsert(objects, code, n) ==
  {x \in objects : ~(x.code = code /\ x.slide = n)}
    \cup {[code |-> code, slide |-> n, from |-> "request"]}

\* UploadImage whose first failed upload ends the loop in the catch of the
\* handler
UploadImageAbortsOnError ==
  /\ upc = "upload"
  /\ \E o \in UploadOutcomes :
       /\ imageUploadResults' =
            IF o = "ok" THEN imageUploadResults \cup {imageIndex + 1}
                        ELSE imageUploadResults
       /\ storage' = IF o = "ok" THEN Upsert(storage, uniqueCode, imageIndex + 1)
                                 ELSE storage
       /\ IF o = "ok" /\ imageIndex + 1 < imageResults
            THEN /\ upc' = "upload"
                 /\ hasImages' = hasImages
            ELSE /\ upc' = "insert"
                 /\ hasImages' = (o = "ok")
  /\ imageIndex' = imageIndex + 1
  /\ UNCHANGED <<hasFile, document, uniqueCode, pdfPages, slideIndex, slideData,
                 questionsData, speechContent, imageResults, fileExists, scratch,
                 presentations, uResponse, uCalls, pageCalls, renderFailed,
                 dbFailed, rmFailed>>
  /\ UNCHANGED uSince
  /\ UNCHANGED <<genLog, lastGen>>
  /\ UNCHANGED <<rvars, cvars>>

\* one turn of the loop of uploadImagesToSupabase: the upload of the image
\* imageIndex + 1 answers; after the last one hasImages is set
UploadImage ==
  /\ upc = "upload"
  /\ \E o \in UploadOutcomes :
       /\ imageUploadResults' =
            IF o = "ok" THEN imageUploadResults \cup {imageIndex + 1}
                        ELSE imageUploadResults
       /\ storage' = IF o = "ok" THEN Upsert(storage, uniqueCode, imageIndex + 1)
                                 ELSE storage
  /\ imageIndex' = imageIndex + 1
  /\ IF imageIndex + 1 < imageResults
       THEN /\ upc' = "upload"
            /\ hasImages' = hasImages
       ELSE /\ upc' = "insert"
            /\ hasImages' = (Cardinality(imageUploadResults') > 0)
  /\ UNCHANGED <<hasFile, document, uniqueCode, pdfPages, slideIndex, slideData,
                 questionsData, speechContent, imageResults, fileExists, scratch,
                 presentations, uResponse, uCalls, pageCalls, renderFailed,
                 dbFailed, rmFailed>>
  /\ UNCHANGED uSince
  /\ UNCHANGED <<genLog, lastGen>>
  /\ UNCHANGED <<rvars, cvars>>

\* what happens to the uploaded file when the handler removes it: it is
\* removed, it is not there any more, it cannot be removed
RemoveOutcomes == {"ok", "gone", "denied"}

\* the row the handler inserts
PresentationRow ==
  [slide_count |-> Len(pdfPages), slide_texts |-> slideData,
   questions |-> questionsData, speech_content |-> speechContent,
   has_images |-> hasImages]

\* the success response of the handler
UploadSuccess ==
  [status |-> 200, code |-> uniqueCode, slideCount |-> Len(pdfPages),
   hasImages |-> hasImages,
   uploadedImages |-> Cardinality(imageUploadResults)]

\* GET /api/presentation/:code: the pages of the row a signed URL is asked
\* for
SignedPages(row) == IF row.has_images THEN 1..row.slide_count ELSE {}

\* the catch block of the handler: the file is removed when it exists, the
\* scratch directory is removed, status 500 is sent; when removing the file
\* throws here nothing more is done
CatchBlock(rm) ==
  IF rm = "denied"
    THEN /\ upc' = "crashed"
         /\ UNCHANGED <<fileExists, scratch, uResponse>>
    ELSE /\ upc' = "responded"
         /\ fileExists' = FALSE
         /\ scratch' = scratch \ {uniqueCode}
         /\ uResponse' = [NoUpload EXCEPT !.status = 500]

\* the insert into the presentations table answers (unique_code is UNIQUE
\* there); then the clean-up and the response, or the catch block
InsertPresentation ==
  /\ upc = "insert"
  /\ \E dbError \in BOOLEAN, rm \in RemoveOutcomes :
       /\ uniqueCode \in DOMAIN presentations => dbError
       /\ dbFailed' = dbError
       /\ rmFailed' = IF dbError THEN rm = "denied" ELSE rm # "ok"
       /\ presentations' = IF dbError THEN presentations
                           ELSE Put(presentations, uniqueCode, PresentationRow)
       /\ IF ~dbError /\ rm = "ok"
            THEN /\ fileExists' = FALSE
                 /\ scratch' = scratch \ {uniqueCode}
                 /\ uResponse' = UploadSuccess
                 /\ upc' = "responded"
            ELSE CatchBlock(rm)
  /\ UNCHANGED <<hasFile, document, uniqueCode, pdfPages, slideIndex, slideData,
                 questionsData, speechContent, imageResults, imageIndex,
                 imageUploadResults, hasImages, storage, uCalls, pageCalls,
                 renderFailed>>
  /\ UNCHANGED uSince
  /\ UNCHANGED <<genLog, lastGen>>
  /\ UNCHANGED <<rvars, cvars>>

(***************************************************************************)
(* The two specifications: one request to a handler, the other handler     *)
(* idle.                                                                   *)
(***************************************************************************)
\* one request to POST /api/generate-report; the other handler is idle
InitReport ==
  /\ reqBody \in RequestBodies
  /\ rpc = "received"
  /\ retryCount = 0
  /\ pairIndex = 0
  /\ results = <<>>
  /\ reportData = <<>>
  /\ summary = NoSummary
  /\ reportCode = 0
  /\ reports = [c \in StoredBefore |-> NoSummary]
  /\ rResponse = NoResponse
  /\ evalPath = "none"
  /\ batchOutcome = "none"
  /\ batchCalls = 0
  /\ singleCalls = 0
  /\ attempts = 0
  /\ lastAttempts = 0
  /\ lastKind = "none"
  /\ batchKind = "none"
  /\ waitTime = 0
  /\ rSince = "start"
  /\ lastText = <<>>
  /\ hasFile = FALSE
  /\ document = [corrupt |-> TRUE, text |-> <<>>]
  /\ upc = "idle"
  /\ uniqueCode = 0
  /\ pdfPages = <<>>
  /\ slideIndex = 0
  /\ slideData = <<>>
  /\ questionsData = <<>>
  /\ speechContent = <<>>
  /\ imageResults = 0
  /\ imageIndex = 0
  /\ imageUploadResults = {}
  /\ hasImages = FALSE
  /\ fileExists = FALSE
  /\ scratch = {}
  /\ storage = {[code |-> c, slide |-> 1, from |-> "before"] :
                  c \in PresentationsBefore}
  /\ presentations = [c \in PresentationsBefore |-> StoredPresentation]
  /\ uResponse = NoUpload
  /\ uCalls = 0
  /\ pageCalls = <<>>
  /\ renderFailed = FALSE
  /\ dbFailed = FALSE
  /\ rmFailed = FALSE
  /\ uSince = "start"
  /\ genLog = {}
  /\ lastGen = "none"
  /\ runPc = [r \in Runs |-> "idle"]
  /\ runCode = [r \in Runs |-> 0]
  /\ runListed = [r \in Runs |-> 0]
  /\ runIndex = [r \in Runs |-> 0]
  /\ dirs = {}
  /\ files = {}
  /\ bucket = {}
  /\ rows = PresentationsBefore
  /\ overwritten = FALSE
  /\ removedUnderRun = FALSE

NextReport ==
  \/ ReceiveReport \/ BatchCall \/ BatchBackoff \/ SingleDelay
  \/ SingleCall \/ SingleBackoff \/ InsertReport

SpecReport == InitReport /\ [][NextReport]_vars

NextUpload ==
  \/ ReceiveUpload \/ ExtractText \/ QuestionDelay \/ QuestionCall
  \/ SpeechDelay \/ SpeechCall \/ ConvertImages \/ UploadImage
  \/ InsertPresentation

SpecUpload == InitUpload /\ [][NextUpload]_vars

\* one request, to either handler
InitEither == InitReport \/ InitUpload

NextEither == NextReport \/ NextUpload

SpecEither == InitEither /\ [][NextEither]_vars

(***************************************************************************)
(* Two runs of the upload handler at the same time.                        *)
(***************************************************************************)
\* a run is between the making of its directory and its clean-up
InProgress(r) == runPc[r] \in {"convert", "upload", "insert"}

\* the handler up to the conversion, for what is shared: the code is drawn and
\* temp/<code> is made when it does not exist
StartRun ==
  \E r \in Runs :
    /\ runPc[r] = "received"
    /\ \E c \in CodeValues :
         /\ runCode' = [runCode EXCEPT ![r] = c]
         /\ dirs' = dirs \cup {c}
    /\ runPc' = [runPc EXCEPT ![r] = "convert"]
    /\ UNCHANGED <<runListed, runIndex, files, bucket, rows, overwritten,
                   removedUnderRun>>
    /\ UNCHANGED <<rvars, uvars>>

\* the files of temp/<code>
FilesOf(fs, c) == {f \in fs : f.code = c}

\* convertPdfToImages of a run answers: it rejects, or the script has written
\* slide_1.png .. slide_<m>.png into temp/<code> and readdir lists every file
\* of that directory
RenderRun ==
  \E r \in Runs :
    /\ runPc[r] = "convert"
    /\ \E o \in ConvertOutcomes, m \in 1..MaxImages :
         IF o = "failed"
           THEN /\ runPc' = [runPc EXCEPT ![r] = "insert"]
                /\ UNCHANGED <<runListed, runIndex, dirs, files>>
           ELSE LET c == runCode[r]
                    written == {[code |-> c, n |-> n, by |-> r] : n \in 1..m}
                    kept == {f \in files : ~(f.code = c /\ f.n \in 1..m)}
                IN /\ files' = kept \cup written
                   /\ dirs' = dirs \cup {c}
                   /\ runListed' = [runListed EXCEPT
                                      ![r] = Cardinality(FilesOf(kept \cup written, c))]
                   /\ runIndex' = [runIndex EXCEPT ![r] = 0]
                   /\ runPc' = [runPc EXCEPT ![r] = "upload"]
    /\ UNCHANGED <<runCode, bucket, rows, overwritten, removedUnderRun>>
    /\ UNCHANGED <<rvars, uvars>>

\* one turn of the loop of uploadImagesToSupabase of a run: the file is read
\* (a throw when it is gone) and uploaded to <code>/slide_<n>.png with upsert
UploadRun ==
  \E r \in Runs :
    /\ runPc[r] = "upload"
    /\ LET c == runCode[r]
           n == runIndex[r] + 1
           here == {f \in files : f.code = c /\ f.n = n}
           there == {x \in bucket : x.code = c /\ x.slide = n}
       IN \E o \in UploadOutcomes :
            IF here # {} /\ o = "ok"
              THEN /\ bucket' = (bucket \ there) \cup
                        {[code |-> c, slide |-> n, by |-> r, image |-> f.by] :
                           f \in here}
                   /\ overwritten' = (overwritten \/ \E x \in there : x.by # r)
              ELSE UNCHANGED <<bucket, overwritten>>
    /\ runIndex' = [runIndex EXCEPT ![r] = @ + 1]
    /\ runPc' = [runPc EXCEPT
                   ![r] = IF runIndex[r] + 1 < runListed[r] THEN "upload"
                                                           ELSE "insert"]
    /\ UNCHANGED <<runCode, runListed, dirs, files, rows, removedUnderRun>>
    /\ UNCHANGED <<rvars, uvars>>

\* the insert of a run answers and the run cleans up: temp/<code> is removed
\* with all its files, unless the removal of the uploaded file threw in the
\* catch block
FinishRun ==
  \E r \in Runs :
    /\ runPc[r] = "insert"
    /\ \E dbError \in BOOLEAN, rm \in RemoveOutcomes :
         LET c == runCode[r] IN
         /\ c \in rows => dbError
         /\ rows' = IF dbError THEN rows ELSE rows \cup {c}
         /\ IF rm = "denied"
              THEN UNCHANGED <<dirs, files, removedUnderRun>>
              ELSE /\ dirs' = dirs \ {c}
                   /\ files' = files \ FilesOf(files, c)
                   /\ removedUnderRun' =
                        (removedUnderRun \/
                           \E q \in Runs \ {r} :
                             runPc[q] \in {"convert", "upload"} /\ runCode[q] = c)
    /\ runPc' = [runPc EXCEPT ![r] = "done"]
    /\ UNCHANGED <<runCode, runListed, runIndex, bucket, overwritten>>
    /\ UNCHANGED <<rvars, uvars>>

\* two requests with a file; the single-request handlers are idle
InitTwoUploads ==
  /\ runPc = [r \in Runs |-> "received"]
  /\ runCode = [r \in Runs |-> 0]
  /\ runListed = [r \in Runs |-> 0]
  /\ runIndex = [r \in Runs |-> 0]
  /\ dirs = {}
  /\ files = {}
  /\ bucket = {}
  /\ rows = PresentationsBefore
  /\ overwritten = FALSE
  /\ removedUnderRun = FALSE
  /\ reqBody = [isArray |-> FALSE, qaPairs |-> <<>>]
  /\ rpc = "idle"
  /\ retryCount = 0
  /\ pairIndex = 0
  /\ results = <<>>
  /\ reportData = <<>>
  /\ summary = NoSummary
  /\ reportCode = 0
  /\ reports = [c \in StoredBefore |-> NoSummary]
  /\ rResponse = NoResponse
  /\ evalPath = "none"
  /\ batchOutcome = "none"
  /\ batchCalls = 0
  /\ singleCalls = 0
  /\ attempts = 0
  /\ lastAttempts = 0
  /\ lastKind = "none"
  /\ batchKind = "none"
  /\ waitTime = 0
  /\ rSince = "start"
  /\ lastText = <<>>
  /\ hasFile = FALSE
  /\ document = [corrupt |-> TRUE, text |-> <<>>]
  /\ upc = "idle"
  /\ uniqueCode = 0
  /\ pdfPages = <<>>
  /\ slideIndex = 0
  /\ slideData = <<>>
  /\ questionsData = <<>>
  /\ speechContent = <<>>
  /\ imageResults = 0
  /\ imageIndex = 0
  /\ imageUploadResults = {}
  /\ hasImages = FALSE
  /\ fileExists = FALSE
  /\ scratch = {}
  /\ storage = {[code |-> c, slide |-> 1, from |-> "before"] :
                  c \in PresentationsBefore}
  /\ presentations = [c \in PresentationsBefore |-> StoredPresentation]
  /\ uResponse = NoUpload
  /\ uCalls = 0
  /\ pageCalls = <<>>
  /\ renderFailed = FALSE
  /\ dbFailed = FALSE
  /\ rmFailed = FALSE
  /\ uSince = "start"
  /\ genLog = {}
  /\ lastGen = "none"

NextTwoUploads == StartRun \/ RenderRun \/ UploadRun \/ FinishRun

SpecTwoUploads == InitTwoUploads /\ [][NextTwoUploads]_vars

(***************************************************************************)
(* Properties of the report handler, checked under SpecReport.             *)
(***************************************************************************)
\* generateReport has returned
ReportReturned == rpc \in {"insert", "responded"} /\ evalPath # "none"

NPairs == Len(reqBody.qaPairs)

\* C1: generateReport returns a list as long as qaPairs, whatever the provider
\* answered (any text, rate-limit errors, other errors), and so does the
\* response that carries it.
C1_LengthPreserved ==
  /\ ReportReturned => Len(reportData) = NPairs
  /\ rResponse.status = 200 => Len(rResponse.evaluations) = NPairs

\* a report of the fallback path for several pairs, one of whose single-pair
\* calls threw
C1_Witness ==
  /\ rpc = "responded" /\ rResponse.status = 200
  /\ NPairs >= 2 /\ evalPath = "fallback"
  /\ \E k \in 1..Len(reportData) :
       reportData[k].ReferenceAnswer = FailedSingle.referenceAnswer

\* C2: entry i of the list generateReport builds carries the question and the
\* user answer of pair i, in the batch path and in the fallback path, also
\* while the fallback loop runs and when single evaluations fail.
C2_OrderPreserved ==
  /\ Len(results) <= NPairs
  /\ \A k \in 1..Len(results) :
       /\ k <= NPairs
       /\ results[k].Question = reqBody.qaPairs[k].question
       /\ results[k].UserAnswer = reqBody.qaPairs[k].userAnswer
  /\ ReportReturned =>
       /\ Len(reportData) = NPairs
       /\ \A k \in 1..Len(reportData) :
            /\ k <= NPairs
            /\ reportData[k].Question = reqBody.qaPairs[k].question
            /\ reportData[k].UserAnswer = reqBody.qaPairs[k].userAnswer

\* a report of the batch path for several pairs, from a parsed response
C2_Witness ==
  /\ rpc = "responded" /\ rResponse.status = 200
  /\ NPairs >= 2 /\ evalPath = "batch" /\ batchOutcome = "parsed"

\* C3: a rate-limited evaluation call (batch or single-pair) is retried at most
\* MaxRetries times, so it makes at most MaxRetries + 1 attempts; a call whose
\* last attempt is rate-limited too returns its rate-limit value, of
\* similarity 0, and does not throw.
C3_RetryBound ==
  /\ attempts <= MaxRetries
  /\ lastAttempts <= MaxRetries + 1
  /\ rpc \in {"batchBackoff", "singleBackoff"} => lastKind = "rate"
  /\ (lastKind = "rate" /\ attempts = 0 /\ evalPath = "batch") =>
       /\ lastAttempts = MaxRetries + 1
       /\ batchOutcome = "rateLimited"
       /\ Len(reportData) = NPairs
       /\ \A k \in 1..Len(reportData) :
            /\ reportData[k].SimilarityScore = Num(0)
            /\ reportData[k].ReferenceAnswer = RateLimitSingle.referenceAnswer
  /\ (lastKind = "rate" /\ attempts = 0 /\ evalPath = "fallback") =>
       /\ lastAttempts = MaxRetries + 1
       /\ results # <<>>
       /\ results[Len(results)].SimilarityScore = Num(0)
       /\ results[Len(results)].ReferenceAnswer = RateLimitSingle.referenceAnswer
       /\ results[Len(results)].MissingPoints = RateLimitSingle.missingPoints

\* a single-pair call that was rate-limited on each of its three attempts
C3_Witness ==
  /\ evalPath = "fallback" /\ lastKind = "rate" /\ attempts = 0
  /\ lastAttempts = MaxRetries + 1

\* C4 as stated: every error in the combined call, a rate-limit error that
\* exhausts the retries included, makes generateReport evaluate the pairs one
\* at a time.
C4_AnyErrorFallsBack ==
  (ReportReturned /\ NPairs > 0 /\ batchKind \in {"rate", "error"}) =>
     evalPath = "fallback" /\ singleCalls >= NPairs

\* C4 as amended: the pairs are evaluated one at a time exactly when an attempt
\* of the combined call failed with an error that is no rate-limit error; a
\* rate-limit error that exhausts the retries yields the rate-limit defaults
\* of the combined call and no single-pair call.
C4_FallbackOnThrowOnly ==
  /\ evalPath = "fallback" <=> batchKind = "error"
  /\ singleCalls > 0 => batchKind = "error"
  /\ (ReportReturned /\ batchKind = "error") =>
       singleCalls >= NPairs /\ Len(results) = NPairs /\ reportData = results
  /\ (ReportReturned /\ batchKind = "rate") =>
       /\ evalPath = "batch" /\ singleCalls = 0
       /\ batchCalls = MaxRetries + 1

\* a report of the fallback path after a combined call that failed
C4_Witness ==
  /\ rpc = "responded" /\ batchKind = "error" /\ evalPath = "fallback"
  /\ NPairs >= 2 /\ singleCalls >= NPairs

PassingEntries(rd) ==
  {k \in 1..Len(rd) :
     LET x == ToNumber(rd[k].SimilarityScore)
     IN x.t = "num" /\ x.n >= PassThreshold}

\* C7: in a report with at least one evaluation, passedQuestions is the number
\* of evaluations with similarity >= 70 and passRate is
\* passedQuestions / totalQuestions * 100 rounded to the nearest integer,
\* halves up.
C7_PassStatistics ==
  (ReportReturned /\ Len(reportData) >= 1) =>
     LET p == Cardinality(PassingEntries(reportData))
         t == Len(reportData)
         r == summary.passRate
     IN /\ summary.totalQuestions = t
        /\ summary.passedQuestions = p
        /\ r.t = "num"
        /\ 2 * r.n * t <= 200 * p + t
        /\ 200 * p + t < 2 * (r.n + 1) * t
        /\ rResponse.status = 200 => rResponse.summary = summary

\* a report in which two of three evaluations passed, one of them at 70
C7_Witness ==
  /\ rpc = "responded" /\ rResponse.status = 200
  /\ summary.totalQuestions = 3 /\ summary.passedQuestions = 2
  /\ summary.passRate = Num(67)
  /\ \E k \in 1..Len(reportData) : reportData[k].SimilarityScore = Num(PassThreshold)

\* C8 as stated: for the empty qaPairs array the report's passRate and
\* averageScore are 0, in the report and in the stored row.
C8_EmptyReportIsZero ==
  (ReportReturned /\ reqBody.isArray /\ NPairs = 0) =>
     /\ summary.passRate = Num(0)
     /\ summary.averageScore = [nan |-> FALSE, whole |-> 0, hundredths |-> 0]
     /\ \A c \in DOMAIN reports :
          reports[c].passRate.t = "num" /\ ~reports[c].averageScore.nan

\* the batch call has returned on a text of the provider
BatchAnswered == ReportReturned /\ evalPath = "batch" /\ batchKind = "text"

\* the single-pair call that ended last has returned on a text of the provider
SingleAnswered ==
  /\ evalPath = "fallback"
  /\ rpc \in {"singleDelay", "insert", "responded"}
  /\ results # <<>>
  /\ lastKind = "text"

\* C20: the result of an evaluation call that ends on a text of the provider
\* is the result of that text alone, the same after rate-limited attempts as
\* on the first attempt; the call has made one provider call more than it has
\* retried, so 2 when only the first attempt was rate-limited.
C20_RetriedResultIsSame ==
  /\ rpc = "batchCall" => batchCalls = retryCount
  /\ rpc = "batchBackoff" => batchCalls = retryCount + 1
  /\ rpc = "singleCall" => attempts = retryCount
  /\ rpc = "singleBackoff" => attempts = retryCount + 1
  /\ BatchAnswered =>
       /\ reportData =
            BatchEntries(reqBody.qaPairs,
                         BatchFromText(lastText, NPairs).evaluations)
       /\ batchOutcome = BatchFromText(lastText, NPairs).outcome
       /\ batchCalls = retryCount + 1
       /\ lastAttempts = batchCalls
  /\ SingleAnswered =>
       /\ results[Len(results)] =
            ReportEntry(reqBody.qaPairs[Len(results)], SingleFromText(lastText))
       /\ lastAttempts \in 1..(MaxRetries + 1)

\* the first attempt of the batch call was rate-limited, the retry gave a
\* text that parsed, and the report was answered after 2 provider calls
C20_Witness ==
  /\ rpc = "responded"
  /\ rResponse.status = 200
  /\ BatchAnswered
  /\ NPairs >= 2
  /\ retryCount = 1
  /\ batchCalls = 2
  /\ batchOutcome = "parsed"
  /\ \E k \in 1..NPairs : reportData[k].SimilarityScore = Num(85)

\* v is an integer from 0 to 100
IsScore(v) == v.t = "num" /\ v.n \in 0..100

\* C23: every evaluation of a returned report, and of the response that
\* carries it, has a similarity that is an integer from 0 to 100, whatever
\* the provider sent for it.
C23_SimilarityInRange ==
  /\ ReportReturned =>
       \A k \in 1..Len(reportData) : IsScore(reportData[k].SimilarityScore)
  /\ (rpc = "responded" /\ rResponse.status = 200) =>
       \A k \in 1..Len(rResponse.evaluations) :
         IsScore(rResponse.evaluations[k].SimilarityScore)

\* the collection the batch call maps from, for a text that parses
ParsedCollection(t) ==
  LET v == JsonParse(CleanResponse(Trim(t))).v
  IN IF v.arr THEN v.items ELSE <<v.items[1]>>

\* the text of the batch call parsed
BatchParsed == BatchAnswered /\ JsonParse(CleanResponse(Trim(lastText))).ok

\* the positions of evals whose result is tagged with idx
Tagged(evals, idx) ==
  {p \in 1..Len(evals) : ~evals[p].isNull /\ evals[p].questionIndex = idx}

\* the position of evals the claim gives to the output position idx
\* (1-based): the first result tagged idx, else the slot idx, else 0 for the
\* default
SourceSlot(evals, idx) ==
  IF Tagged(evals, idx) # {}
    THEN CHOOSE p \in Tagged(evals, idx) : \A q \in Tagged(evals, idx) : p <= q
  ELSE IF idx <= Len(evals) /\ ~evals[idx].isNull THEN idx
  ELSE 0

\* an entry for the pair made of a default: similarity 0 and the placeholder
\* texts of the mapping loop or of the parse failure
DefaultEntry(pair, e) ==
  \/ e = ReportEntry(pair, ToEvaluation(EmptyObj))
  \/ e = ReportEntry(pair, ParseFailureDefaults(1)[1])

\* C24: when the text of the batch call parses, the entry at every output
\* position is built from the result tagged with that position's number when
\* there is one, else from the result at that slot, else it is a default
\* (similarity 0 and placeholder texts).
C24_IndexedThenSlotThenDefault ==
  BatchParsed =>
    \A k \in 1..NPairs :
      LET evals == ParsedCollection(lastText)
          from == SourceSlot(evals, k)
      IN IF from = 0
           THEN DefaultEntry(reqBody.qaPairs[k], reportData[k])
           ELSE reportData[k] =
                  ReportEntry(reqBody.qaPairs[k], ToEvaluation(evals[from]))

\* the parsed collection holds a null
HoldsNull(evals) == \E p \in 1..Len(evals) : evals[p].isNull

\* the JSON value of a text that holds one
PayloadOf(t) == t[CHOOSE p \in 1..Len(t) : t[p].k = "P"]

\* the text is a JSON value wrapped the way style says
WrappedAs(t, style) ==
  /\ \E p \in 1..Len(t) : t[p].k = "P"
  /\ t = Wrap(style, PayloadOf(t))

\* the report of the batch call is the one the bare payload of its text gives
SameAsUnwrapped ==
  LET bare == BatchFromText(Wrap("bare", PayloadOf(lastText)), NPairs)
  IN /\ batchOutcome = bare.outcome
     /\ reportData = BatchEntries(reqBody.qaPairs, bare.evaluations)

\* C26 as stated: a payload in a fenced block, with the tag json, with no tag
\* or with another language tag, gives the evaluations of the bare payload.
C26_AnyFenceSameAsUnwrapped ==
  (BatchAnswered /\ \E st \in {"json", "plain", "lang"} : WrappedAs(lastText, st))
    => SameAsUnwrapped

\* C26: a payload in a fenced block with the tag json or with no tag gives
\* the evaluations of the bare payload; with any other language tag the tag
\* stays in the text, the parse fails and every pair gets the parse-failure
\* default.
C26_JsonOrPlainFenceSameAsUnwrapped ==
  /\ (BatchAnswered /\ \E st \in {"json", "plain"} : WrappedAs(lastText, st))
       => SameAsUnwrapped
  /\ (BatchAnswered /\ WrappedAs(lastText, "lang")) =>
       /\ batchOutcome = "parseFailed"
       /\ reportData =
            BatchEntries(reqBody.qaPairs, ParseFailureDefaults(NPairs))

\* a payload of two results in a fence with no tag was answered with the
\* scores of the payload
C26_Witness ==
  /\ rpc = "responded"
  /\ rResponse.status = 200
  /\ BatchAnswered
  /\ WrappedAs(lastText, "plain")
  /\ PayloadOf(lastText).v.arr
  /\ NPairs = 2
  /\ batchOutcome = "parsed"
  /\ reportData[1].SimilarityScore = Num(85)
  /\ reportData[2].SimilarityScore = Num(70)

\* C27: when the batch call has mapped a parsed collection, no result of the
\* collection is the source of two output positions: the positions that do
\* not get the default have different sources.
C27_SourcesInjective ==
  (BatchParsed /\ batchOutcome = "parsed") =>
    LET evals == ParsedCollection(lastText)
    IN \A j, k \in 1..NPairs :
         (j < k /\ SourceSlot(evals, j) # 0 /\ SourceSlot(evals, k) # 0) =>
           SourceSlot(evals, j) # SourceSlot(evals, k)

\* the batch call has returned a value: after a text of the provider, or
\* after the rate-limit error of its last attempt
BatchReturnedValue ==
  /\ evalPath # "none"
  /\ batchKind \in {"text", "rate"}

\* C33: a run on N pairs makes at most MaxRetries + 1 batch calls and at most
\* MaxRetries + 1 single-pair calls per pair, 3 + 3 * N provider calls in
\* all; when the batch call returned a value (parsed results, parse-failure
\* defaults, rate-limit defaults) it makes no single-pair call.
C33_CallBound ==
  /\ batchCalls <= MaxRetries + 1
  /\ singleCalls <= (MaxRetries + 1) * Len(results) + attempts + 1
  /\ singleCalls <= (MaxRetries + 1) * NPairs
  /\ batchCalls + singleCalls <= 3 + 3 * NPairs
  /\ BatchReturnedValue =>
       /\ singleCalls = 0
       /\ evalPath = "batch"
       /\ batchOutcome \in {"parsed", "parseFailed", "rateLimited"}
  /\ batchOutcome \in {"parsed", "parseFailed", "rateLimited"} =>
       singleCalls = 0 /\ rpc \in {"insert", "responded"}

\* the bound is reached: three batch attempts, the last one failing, and
\* three attempts for each of two pairs
C33_Witness ==
  /\ rpc = "responded"
  /\ rResponse.status = 200
  /\ NPairs = 2
  /\ batchCalls = 3
  /\ singleCalls = 6
  /\ evalPath = "fallback"

\* the entries a single-pair call can give for the pair
SingleEntries(pair) ==
  {ReportEntry(pair, SingleEnd(o).evaluation) : o \in OutcomesOver(SingleTexts)}

\* the value the batch call returns after the answer of kind kind with the
\* text t
BatchValue(kind, t) ==
  IF kind = "text" THEN BatchFromText(t, NPairs).evaluations
  ELSE RateLimitDefaults(NPairs)

\* C34: the entries of a report all come from the batch call or all from
\* single-pair calls: an entry is added to the results of the fallback only
\* by the step that ends the single-pair call of its pair, starting from no
\* entry; the report is set either by the step that ends the batch call, to
\* the entries of the value that call returned and with no single-pair call
\* made, or by the step that ends the last single-pair call, to the results
\* of the fallback.
C34_OnePathPerReport ==
  /\ [][results' # results =>
          /\ rpc = "singleCall"
          /\ singleCalls' = singleCalls + 1
          /\ \E e \in SingleEntries(reqBody.qaPairs[Len(results) + 1]) :
               results' = Append(results, e)]_vars
  /\ [][reportData' # reportData =>
          \/ /\ rpc = "batchCall"
             /\ evalPath' = "batch"
             /\ singleCalls' = 0
             /\ results' = <<>>
             /\ batchKind' \in {"text", "rate"}
             /\ reportData' =
                  BatchEntries(reqBody.qaPairs, BatchValue(batchKind', lastText'))
          \/ /\ rpc = "singleCall"
             /\ evalPath' = "fallback"
             /\ batchKind = "error"
             /\ Len(results') = NPairs
             /\ reportData' = results']_vars
  /\ [](ReportReturned =>
          \/ evalPath = "batch" /\ singleCalls = 0 /\ results = <<>>
          \/ evalPath = "fallback" /\ reportData = results
               /\ singleCalls >= NPairs)

\* a report of the fallback path for two pairs, and no entry of it from the
\* batch call, which failed
C34_Witness ==
  /\ rpc = "responded"
  /\ rResponse.status = 200
  /\ evalPath = "fallback"
  /\ batchKind = "error"
  /\ NPairs = 2
  /\ reportData = results
  /\ reportData[1].SimilarityScore = Num(85)
  /\ reportData[2].ReferenceAnswer = FailedSingle.referenceAnswer

(***************************************************************************)
(* Properties of POST /api/upload-presentation.                            *)
(***************************************************************************)
\* the pages of pdfPages whose trimmed text has 10 characters or fewer
ShortPages ==
  {n \in 1..Len(pdfPages) : Len(TrimText(pdfPages[n])) <= MinTextLength}

TextPathDone == upc \in {"convert", "upload", "insert", "responded", "crashed"}

\* C6: for a page whose trimmed text has 10 characters or fewer no provider
\* call is ever made (neither question nor speech) and no slide text, question
\* or speech is recorded under its slide number; every call of a run belongs
\* to a longer page, and when processTextContent has returned the run has made
\* exactly two calls for each longer page, however many short pages there are.
C6_ShortPagesSkipped ==
  /\ \A n \in ShortPages :
       /\ pageCalls[n] = 0
       /\ n \notin DOMAIN slideData
       /\ n \notin DOMAIN questionsData
       /\ n \notin DOMAIN speechContent
  /\ uCalls = SumSeq(pageCalls)
  /\ TextPathDone =>
       /\ \A n \in (1..Len(pdfPages)) \ ShortPages : pageCalls[n] = 2
       /\ uCalls = 2 * (Len(pdfPages) - Cardinality(ShortPages))

\* a run over a page of exactly 10 characters and a longer one has finished
\* its text path with the two calls of the longer page
C6_Witness ==
  /\ TextPathDone
  /\ Len(pdfPages) = 2
  /\ Cardinality(ShortPages) = 1
  /\ \E n \in ShortPages : Len(TrimText(pdfPages[n])) = MinTextLength
  /\ uCalls = 2

\* C9: when convertPdfToImages rejects, the handler does not fail for it: it
\* goes on to the insert with hasImages false and no uploaded image, the slide
\* texts, questions and speeches of the text path are the ones stored and
\* answered, and the response is the success response with hasImages false
\* unless the insert or the removal of the uploaded file fails afterwards.
C9_RenderFailureTextOnly ==
  renderFailed =>
    /\ upc \in {"insert", "responded", "crashed"}
    /\ hasImages = FALSE
    /\ imageUploadResults = {}
    /\ DOMAIN slideData = (1..Len(pdfPages)) \ ShortPages
    /\ \A n \in DOMAIN slideData : slideData[n] = TrimText(pdfPages[n])
    /\ DOMAIN questionsData \subseteq DOMAIN slideData
    /\ DOMAIN speechContent \subseteq DOMAIN slideData
    /\ (upc # "insert" /\ ~dbFailed) =>
         /\ uniqueCode \in DOMAIN presentations
         /\ presentations[uniqueCode] =
              [slide_count |-> Len(pdfPages), slide_texts |-> slideData,
               questions |-> questionsData, speech_content |-> speechContent,
               has_images |-> FALSE]
    /\ (upc # "insert" /\ ~dbFailed /\ ~rmFailed) =>
         /\ upc = "responded"
         /\ uResponse.status = 200
         /\ uResponse.hasImages = FALSE
         /\ uResponse.uploadedImages = 0
         /\ uResponse.slideCount = Len(pdfPages)
    /\ (upc = "responded" /\ uResponse.status # 200) => (dbFailed \/ rmFailed)

\* the rendering of a document with a long page was rejected and the request
\* was answered with the text-only success response, question and speech kept
C9_Witness ==
  /\ renderFailed
  /\ upc = "responded"
  /\ uResponse.status = 200
  /\ uResponse.hasImages = FALSE
  /\ Len(pdfPages) >= 1
  /\ DOMAIN slideData # {}
  /\ DOMAIN questionsData # {}
  /\ DOMAIN speechContent # {}
  /\ presentations[uniqueCode].slide_texts = slideData

\* C10: when extractTextFromPdf obtains no page (the document is corrupt or
\* has no text), the request ends with an error response, no provider call is
\* made and no presentation row is stored.
C10_ExtractionFailureIsFatal ==
  (upc \in {"responded", "crashed"} /\ hasFile /\ ExtractPages(document) = <<>>)
    => /\ uResponse.status = 500
       /\ uCalls = 0
       /\ DOMAIN presentations = PresentationsBefore

\* the text has been extracted
Extracted ==
  /\ hasFile
  /\ upc \in {"questionDelay", "questionCall", "speechDelay", "speechCall",
              "convert", "upload", "insert", "responded", "crashed"}

\* the gaps of t: the pairs of inked positions with white space, and nothing
\* else, between them
Gaps(t) ==
  LET edges == {p \in 1..(Len(t) - 1) : ~IsWs(t[p]) /\ IsWs(t[p + 1])}
  IN {<<p, RunEnd(t, p) + 1>> : p \in {q \in edges : RunEnd(t, q) < Len(t)}}

\* the number of non-blank blocks of t: with a form feed in t a gap parts two
\* blocks when it holds a form feed, without one when it holds three line
\* feeds or more
BlockCount(t) ==
  IF \A p \in 1..Len(t) : IsWs(t[p]) THEN 0
  ELSE IF \E p \in 1..Len(t) : t[p] = "f"
    THEN 1 + Cardinality({g \in Gaps(t) :
                            \E p \in g[1]..g[2] : t[p] = "f"})
    ELSE 1 + Cardinality({g \in Gaps(t) :
                            Cardinality({p \in g[1]..g[2] : t[p] = "n"}) >= 3})

\* C11: for a readable document the number of extracted pages, and with it
\* the slideCount of the response and the slide_count of the stored row, is
\* the number of non-blank blocks left by the split chain (form feed first,
\* blank lines when that gives one block, blank blocks dropped); no page
\* is blank; a non-blank text with no form feed and no blank-line separator
\* gives 1.
C11_SlideCountIsBlockCount ==
  (Extracted /\ ~document.corrupt) =>
    LET blocks == BlockCount(document.text)
    IN /\ Len(pdfPages) = blocks
       /\ \A n \in 1..Len(pdfPages) : \E p \in 1..Len(pdfPages[n]) :
            ~IsWs(pdfPages[n][p])
       /\ (upc = "responded" /\ uResponse.status = 200) =>
            uResponse.slideCount = blocks
       /\ (upc \in {"responded", "crashed"} /\ ~dbFailed) =>
            presentations[uniqueCode].slide_count = blocks
       /\ (/\ blocks > 0
           /\ \A p \in 1..Len(document.text) : document.text[p] # "f"
           /\ \A g \in Gaps(document.text) :
                Cardinality({p \in g[1]..g[2] : document.text[p] = "n"}) < 3)
            => Len(pdfPages) = 1

\* a document with no form feed was split on its blank lines into two pages
\* and answered with slideCount 2
C11_Witness ==
  /\ upc = "responded"
  /\ uResponse.status = 200
  /\ uResponse.slideCount = 2
  /\ \A p \in 1..Len(document.text) : document.text[p] # "f"
  /\ \E g \in Gaps(document.text) : g[2] > g[1] + 1
  /\ Len(pdfPages) = 2

\* the handler has ended: a response was sent, or it threw out of its catch
UploadEnded == upc \in {"responded", "crashed"}

\* C12: once the handler has made its scratch directory temp/<code>, that
\* directory is gone when the handler has ended, on success, on text-only
\* success and on every failure (rendering, insert, removal of the uploaded
\* file).
C12_ScratchReleased == UploadEnded => uniqueCode \notin scratch

\* the slide images of this request that are in the bucket
UploadedNow ==
  {x.slide : x \in {y \in storage : y.code = uniqueCode /\ y.from = "request"}}

\* the image uploads are over
UploadsOver == hasFile /\ upc \in {"insert", "responded", "crashed"}

\* C16: whatever uploads fail, every listed image gets its upload attempt,
\* the run goes on to the insert, and hasImages is true exactly when at least
\* one slide image of the request is in the bucket; the success response says
\* the same.
C16_HasImagesIsUploadSuccess ==
  /\ imageUploadResults = UploadedNow
  /\ upc = "upload" => imageIndex < imageResults /\ ~hasImages
  /\ UploadsOver =>
       /\ hasImages <=> UploadedNow # {}
       /\ ~renderFailed => imageIndex = imageResults
       /\ UploadedNow \subseteq 1..imageResults
       /\ (upc = "responded" /\ uResponse.status = 200) =>
            /\ uResponse.hasImages = hasImages
            /\ uResponse.uploadedImages = Cardinality(UploadedNow)
       /\ (upc = "responded" /\ uResponse.status # 200) => (dbFailed \/ rmFailed)
       /\ upc = "crashed" => rmFailed

\* the upload of the first of two images failed, the second was uploaded
\* and the request was answered with hasImages true
C16_Witness ==
  /\ upc = "responded"
  /\ uResponse.status = 200
  /\ imageResults = 2
  /\ UploadedNow = {2}
  /\ uResponse.hasImages
  /\ uResponse.uploadedImages = 1

\* the generation calls of the log with the result res
LoggedAs(kind, res) == {e.page : e \in {x \in genLog : x.kind = kind /\ x.res = res}}

\* C17: a provider failure in the question call or the speech call of a page
\* leaves that artifact of that page absent and nothing else: the other call
\* of the page is still made, every artifact whose call gave a text is there,
\* every later long page gets its slide text and both its calls, and the run
\* ends with the success response unless the insert or the removal of the
\* uploaded file fails.
C17_GenerationFailureIsLocal ==
  /\ \A n \in LoggedAs("question", "failed") : n \notin DOMAIN questionsData
  /\ \A n \in LoggedAs("speech", "failed") : n \notin DOMAIN speechContent
  /\ DOMAIN questionsData = LoggedAs("question", "text")
  /\ DOMAIN speechContent = LoggedAs("speech", "text")
  /\ (hasFile /\ TextPathDone) =>
       /\ DOMAIN slideData = (1..Len(pdfPages)) \ ShortPages
       /\ \A n \in DOMAIN slideData :
            /\ pageCalls[n] = 2
            /\ \E e \in genLog : e.page = n /\ e.kind = "question"
            /\ \E e \in genLog : e.page = n /\ e.kind = "speech"
  /\ (hasFile /\ upc = "responded" /\ ~dbFailed /\ ~rmFailed) =>
       /\ uResponse.status = 200
       /\ uResponse.slideCount = Len(pdfPages)
       /\ presentations[uniqueCode].questions = questionsData
       /\ presentations[uniqueCode].speech_content = speechContent

\* the question call of the first of two long pages failed; the page has its
\* speech, the second page has both artifacts, and the request succeeded
C17_Witness ==
  /\ upc = "responded"
  /\ uResponse.status = 200
  /\ 1 \in LoggedAs("question", "failed")
  /\ DOMAIN slideData = {1, 2}
  /\ DOMAIN questionsData = {2}
  /\ DOMAIN speechContent = {1, 2}

\* the phase of the run: received, extracting, generating, rendering and
\* uploading the images, storing the record, ended
PhaseRank(pc) ==
  CASE pc = "received" -> 0
    [] pc = "extract" -> 1
    [] pc \in {"questionDelay", "questionCall", "speechDelay", "speechCall"} -> 2
    [] pc \in {"convert", "upload"} -> 3
    [] pc = "insert" -> 4
    [] OTHER -> 5

\* the images have not been touched: nothing rendered, nothing uploaded
UploadsNotBegun ==
  /\ imageIndex = 0
  /\ imageResults = 0
  /\ imageUploadResults = {}
  /\ ~renderFailed
  /\ \A x \in storage : x.from = "before"

\* C21: a run never goes back to an earlier phase (received, extracting,
\* generating, images, record, ended); a generation call is made only in the
\* generating phase, with the pages extracted and before the images are
\* touched; the record is stored only by the insert, after the loop over the
\* pages and the loop over the images have ended, and the run ends with it.
C21_PhasesInOrder ==
  [][/\ PhaseRank(upc') >= PhaseRank(upc)
     /\ (uCalls' # uCalls \/ genLog' # genLog) =>
          /\ upc \in {"questionCall", "speechCall"}
          /\ pdfPages = ExtractPages(document)
          /\ UploadsNotBegun
          /\ PhaseRank(upc') \in {2, 3}
     /\ (pdfPages' # pdfPages) => upc = "extract" /\ uCalls = 0
     /\ (storage' # storage \/ imageResults' # imageResults) =>
          /\ upc \in {"convert", "upload"}
          /\ slideIndex = Len(pdfPages)
          /\ uCalls' = uCalls
     /\ (presentations' # presentations) =>
          /\ upc = "insert"
          /\ slideIndex = Len(pdfPages)
          /\ imageIndex = imageResults
          /\ PhaseRank(upc') = 5]_vars

\* a run that went through every phase: two pages with their calls, two
\* images uploaded, the record stored and the success response sent
C21_Witness ==
  /\ upc = "responded"
  /\ uResponse.status = 200
  /\ uCalls = 4
  /\ imageUploadResults = {1, 2}
  /\ uniqueCode \in DOMAIN presentations

\* the rendering gave at least one page image
Rendered == imageResults > 0

CallsLogged(n) == {e \in genLog : e.page = n}

UploadFailed ==
  \/ upc = "crashed"
  \/ upc = "responded" /\ uResponse.status # 200

\* the stored slide images of the presentations completed before the run
ImagesBefore ==
  {[code |-> c, slide |-> 1, from |-> "before"] : c \in PresentationsBefore}

\* C28: when the run has ended in failure, the slide images of every
\* presentation stored before it are the objects they were, also when the
\* run drew the code of one of them.
C28_FailedRunKeepsImages ==
  UploadFailed => {x \in storage : x.code \in PresentationsBefore} = ImagesBefore

\* the run has stored its record in the presentations table
Persisted ==
  /\ hasFile
  /\ uniqueCode \in DOMAIN presentations
  /\ uniqueCode \notin PresentationsBefore

\* C29: a request that ended with an error response has stored no record,
\* and a request that has ended with its record stored has sent the success
\* response with the code of the record.
C29_RecordIffSuccess ==
  /\ (upc = "responded" /\ uResponse.status # 200) => ~Persisted
  /\ (UploadEnded /\ Persisted) =>
       /\ upc = "responded"
       /\ uResponse.status = 200
       /\ uResponse.code = uniqueCode

\* C30: the keys of the three maps are nested: a page with a question or a
\* speech has a slide text, and a page with a slide text is one of the pages
\* 1..slideCount; so it is in the stored record, whose slide_count is the
\* slideCount of the response.
C30_KeySetsNested ==
  /\ Extracted =>
       /\ DOMAIN questionsData \subseteq DOMAIN slideData
       /\ DOMAIN speechContent \subseteq DOMAIN slideData
       /\ DOMAIN slideData \subseteq 1..Len(pdfPages)
  /\ Persisted =>
       LET row == presentations[uniqueCode]
       IN /\ DOMAIN row.questions \subseteq DOMAIN row.slide_texts
          /\ DOMAIN row.speech_content \subseteq DOMAIN row.slide_texts
          /\ DOMAIN row.slide_texts \subseteq 1..row.slide_count
          /\ (upc = "responded" /\ uResponse.status = 200) =>
               uResponse.slideCount = row.slide_count

\* a record of two pages of which the first was too short: the only slide
\* text, question and speech are those of page 2
C30_Witness ==
  /\ upc = "responded"
  /\ uResponse.status = 200
  /\ Persisted
  /\ uResponse.slideCount = 2
  /\ DOMAIN presentations[uniqueCode].slide_texts = {2}
  /\ DOMAIN presentations[uniqueCode].questions = {2}
  /\ DOMAIN presentations[uniqueCode].speech_content = {2}

\* C31: every slide image the run has uploaded has a page number within the
\* slideCount of the run, so that the retrieval of the stored presentation,
\* which asks for the pages 1..slide_count, covers every one of them.
C31_UploadedWithinSlideCount ==
  /\ UploadsOver => imageUploadResults \subseteq 1..Len(pdfPages)
  /\ (UploadEnded /\ Persisted) =>
       UploadedNow \subseteq SignedPages(presentations[uniqueCode])

\* the calls of the log for the page n of the kind kind
CallsOf(n, kind) == {e \in genLog : e.page = n /\ e.kind = kind}

\* C32: a step makes at most one generation call; the call is a question for
\* a long page that has had no call, after which the run waits for the speech
\* of the page whatever the question call gave, or it is the speech for a
\* page whose question call was made and whose speech call was not; when the
\* loop over the pages has ended every long page has had exactly one question
\* call and one speech call, every other page none, and the run has made 2
\* calls per long page.
C32_TwoCallsPerLongPage ==
  /\ [][genLog' # genLog =>
          /\ uCalls' = uCalls + 1
          /\ \E e \in genLog' \ genLog :
               /\ genLog' = genLog \cup {e}
               /\ e.page = slideIndex + 1
               /\ e.page \in (1..Len(pdfPages)) \ ShortPages
               /\ CallsOf(e.page, e.kind) = {}
               /\ e.kind = "question" =>
                    /\ CallsOf(e.page, "speech") = {}
                    /\ upc' = "speechDelay"
                    /\ slideIndex' = slideIndex
               /\ e.kind = "speech" => CallsOf(e.page, "question") # {}]_vars
  /\ [][uCalls' # uCalls => genLog' # genLog]_vars
  /\ []((hasFile /\ TextPathDone) =>
          /\ \A n \in (1..Len(pdfPages)) \ ShortPages :
               /\ Cardinality(CallsOf(n, "question")) = 1
               /\ Cardinality(CallsOf(n, "speech")) = 1
               /\ pageCalls[n] = 2
          /\ \A n \in ShortPages : pageCalls[n] = 0 /\ CallsLogged(n) = {}
          /\ uCalls = 2 * (Len(pdfPages) - Cardinality(ShortPages)))

\* two pages of which the first is too short: the question call of the second
\* failed, its speech call was made all the same, and the run made 2 calls
C32_Witness ==
  /\ hasFile
  /\ TextPathDone
  /\ Len(pdfPages) = 2
  /\ ShortPages = {1}
  /\ LoggedAs("question", "failed") = {2}
  /\ LoggedAs("speech", "text") = {2}
  /\ uCalls = 2

(***************************************************************************)
(* Properties of two upload runs at the same time, checked under           *)
(* SpecTwoUploads.                                                         *)
(***************************************************************************)
\* C13: two runs in progress at the same time never have the same code, that
\* is the same directory temp/<code> and the same key prefix <code>/ in the
\* bucket; so no upload of a run replaces an object of the other and no
\* clean-up of a run removes the directory the other is working in.
C13_RunsShareNothing ==
  /\ \A r \in Runs, q \in Runs :
       (r # q /\ InProgress(r) /\ InProgress(q)) => runCode[r] # runCode[q]
  /\ ~overwritten
  /\ ~removedUnderRun

(***************************************************************************)
(* Properties of both handlers, checked under SpecEither.                  *)
(***************************************************************************)
\* the provider calls the run is waiting for
Outstanding ==
  (IF upc \in {"questionCall", "speechCall"} THEN 1 ELSE 0)
    + (IF rpc \in {"batchCall", "singleCall"} THEN 1 ELSE 0)

\* the long pages before page n have had both their calls
EarlierPagesDone(n) ==
  \A k \in 1..(n - 1) : pageCalls[k] = IF k \in ShortPages THEN 0 ELSE 2

\* C14: a run waits for at most one provider call at a time; when a call for
\* page n is awaited or was made, every page before n has had all its calls
\* (question, then speech) and no page after n has had one; when the
\* single-pair call for pair i is awaited, the pairs before i have their
\* entries and the batch call is over.
C14_OneCallInOrder ==
  /\ Outstanding <= 1
  /\ \A n \in 1..Len(pageCalls) : pageCalls[n] > 0 => EarlierPagesDone(n)
  /\ upc \in {"questionCall", "speechCall"} =>
       /\ slideIndex + 1 \in 1..Len(pdfPages)
       /\ EarlierPagesDone(slideIndex + 1)
       /\ pageCalls[slideIndex + 1] = IF upc = "questionCall" THEN 0 ELSE 1
       /\ \A n \in (slideIndex + 2)..Len(pdfPages) : pageCalls[n] = 0
  /\ rpc \in {"singleDelay", "singleCall", "singleBackoff"} =>
       /\ pairIndex < NPairs
       /\ Len(results) = pairIndex
       /\ batchCalls >= 1
       /\ lastAttempts >= 1
  /\ rpc \in {"batchCall", "batchBackoff"} => singleCalls = 0 /\ results = <<>>

\* the calls of the second of two long pages are under way, and so is the
\* single-pair call of a second pair
C14_Witness ==
  \/ /\ upc = "speechCall"
     /\ slideIndex = 1
     /\ pageCalls = <<2, 1>>
  \/ /\ rpc = "singleCall"
     /\ pairIndex = 1
     /\ Len(results) = 1

\* a provider call is awaited that is not the first of its run and that no
\* wait has come before since the call before it
CallWithoutWait ==
  \/ upc \in {"questionCall", "speechCall"} /\ uSince = "call"
  \/ rpc \in {"batchCall", "singleCall"} /\ rSince = "call"

\* C15 as stated: every provider call of a run but the first one comes after
\* a wait (the delay or a backoff) that followed the call before it, the first
\* single-pair call of the fallback after a failed batch call included.
C15_EveryLaterCallWaits == ~CallWithoutWait

\* C15: every provider call of a run but the first one comes after a wait
\* that followed the call before it, except the first single-pair call of the
\* fallback, which is made right after the batch call has thrown.
C15_LaterCallsWaitButFirstFallback ==
  /\ upc \in {"questionCall", "speechCall"} => uSince # "call"
  /\ upc = "speechCall" => uSince = "wait"
  /\ (upc = "questionCall" /\ uCalls > 0) => uSince = "wait"
  /\ rpc = "batchCall" => rSince = IF batchCalls = 0 THEN "start" ELSE "wait"
  /\ (rpc = "singleCall" /\ (pairIndex > 0 \/ retryCount > 0 \/ singleCalls > 0))
       => rSince = "wait"
  /\ (rpc = "singleCall" /\ rSince # "wait") =>
       /\ rSince = "call"
       /\ pairIndex = 0
       /\ singleCalls = 0
       /\ batchOutcome = "threw"

\* the single-pair call of the second pair is awaited after its delay, and
\* the question call of a second page after its delay
C15_Witness ==
  \/ /\ rpc = "singleCall"
     /\ pairIndex = 1
     /\ singleCalls >= 1
     /\ rSince = "wait"
  \/ /\ upc = "questionCall"
     /\ uCalls = 2
     /\ uSince = "wait"

\* the insert of the report handler has failed: the request was valid and is
\* answered, and no row was stored
ReportInsertFailed ==
  /\ rpc = "responded"
  /\ BodyValid(reqBody)
  /\ DOMAIN reports = StoredBefore

\* C18: when the insert fails, either handler answers with an error (status
\* 500, no code, no summary) and nothing of the run is stored.
C18_InsertFailureReturnsError ==
  /\ ReportInsertFailed =>
       /\ rResponse.status = 500
       /\ rResponse.evaluations = <<>>
  /\ (UploadEnded /\ dbFailed) =>
       /\ upc = "responded"
       /\ uResponse.status = 500
       /\ uResponse.code = 0
       /\ DOMAIN presentations = PresentationsBefore

(***************************************************************************)
(* Termination.  Every step of a handler is the return of the call or the  *)
(* wait it awaits; StepsLeft bounds the steps a run can still take.        *)
(***************************************************************************)
\* the steps an evaluation call can still take at its await, a provider call
\* (atCall) or a backoff, with retryCount retries made
CallSteps(atCall) == 2 * (MaxRetries - retryCount) + (IF atCall THEN 1 ELSE 0)

\* the steps of the fallback loop from pair k on, and the insert
FallbackSteps(k) == (2 * MaxRetries + 2) * (NPairs - k) + 1

ReportStepsLeft ==
  CASE rpc = "received" -> 2 * MaxRetries + 2 + FallbackSteps(0)
    [] rpc = "batchCall" -> CallSteps(TRUE) + FallbackSteps(0)
    [] rpc = "batchBackoff" -> CallSteps(FALSE) + FallbackSteps(0)
    [] rpc = "singleDelay" -> FallbackSteps(pairIndex)
    [] rpc = "singleCall" -> CallSteps(TRUE) + FallbackSteps(pairIndex + 1)
    [] rpc = "singleBackoff" -> CallSteps(FALSE) + FallbackSteps(pairIndex + 1)
    [] rpc = "insert" -> 1
    [] OTHER -> 0

\* the steps after the text path: the conversion, the uploads, the insert
ImageSteps == MaxImages + 2

\* the steps of the text path from the page slideIndex on, of which done are
\* taken
TextSteps(done) == 4 * (Len(pdfPages) - slideIndex) - done + ImageSteps

UploadStepsLeft ==
  CASE upc = "received" -> 4 * MaxPages + ImageSteps + 2
    [] upc = "extract" -> 4 * MaxPages + ImageSteps + 1
    [] upc = "questionDelay" -> TextSteps(0)
    [] upc = "questionCall" -> TextSteps(1)
    [] upc = "speechDelay" -> TextSteps(2)
    [] upc = "speechCall" -> TextSteps(3)
    [] upc = "convert" -> ImageSteps
    [] upc = "upload" -> imageResults - imageIndex + 1
    [] upc = "insert" -> 1
    [] OTHER -> 0

StepsLeft == ReportStepsLeft + UploadStepsLeft

\* the run has ended: with a response, or by throwing out of the catch block
RunEnded == rpc = "responded" \/ UploadEnded

\* every run ends, whatever the provider answers: StepsLeft is never negative,
\* every step lowers it, and it is 0 exactly when the run has ended
RunsTerminate ==
  /\ [](StepsLeft >= 0)
  /\ [][StepsLeft' < StepsLeft]_vars
  /\ [](RunEnded <=> StepsLeft = 0)

\* C19: whatever the provider answers (rate-limit errors to every call
\* included), a run of either handler that has ended has sent its response.
C19_EndedRunHasResponded ==
  RunEnded => (rpc = "responded" \/ upc = "responded")

====
